---- MODULE Spec2Model ----
(***************************************************************************)
(* Verification model of the drive-pilot simulation engine.                *)
(*                                                                         *)
(* In the OTA module time is kept in hundredths of a second, the step of   *)
(* a coarse system clock, and progress fractions in thousandths (0..1000). *)
(* The comparisons the code makes on a progress value (== 0.0, >= 1.0)     *)
(* are decided exactly by these values: a phase of d hundredths has        *)
(* progress 0 only at elapsed time 0 when d <= 1000, and progress 1000     *)
(* exactly from elapsed time d on.                                         *)
(***************************************************************************)
EXTENDS Integers, Sequences, FiniteSets, TLC

\* ------------------------------------------------------------------------
\* Bounds of the exploration
\* ------------------------------------------------------------------------
\* largest clock reading explored (seconds)
MaxTime == 265

\* the time that passes between two calls is a multiple of this (seconds)
Quantum == 20

\* seconds in clock units
Sec(n) == n * 100

\* ------------------------------------------------------------------------
\* OTA update module (carport_sdk/features/ota_updates.py)
\* ------------------------------------------------------------------------
\* ota: the OTAUpdateSimulator object; now: the reading of time.time();
\* last: the observation of the latest call; hist: what the session in
\* flight started from
VARIABLES ota, now, last, hist

\* dm: the DriverMonitoringSimulator object; dmLast: the observation of the
\* latest call
VARIABLES dm, dmLast

\* env: the SimulationEnvironment object; car: the Car object; stack: the
\* call stack of the thread that calls them; delivered: the event types the
\* test's event_handler has received
VARIABLES env, car, stack, delivered

\* wall: the reading of time.time() by the environment and the car (seconds)
VARIABLES wall

\* sim: the CarPortSimulator object with its vehicle state, speed limiting and
\* regulatory mode modules and event bus; bg: the simulation thread;
\* fg: the thread that calls the simulator
VARIABLES sim, bg, fg

\* od: the ObstacleDetectionSimulator object; odLast: what the latest call on
\* it did; odTicks: the number of its updates so far
VARIABLES od, odLast, odTicks

\* bus: an EventBus object; busStack: the publish calls in progress, innermost
\* last; busObs: what the outermost publish has done so far
VARIABLES bus, busStack, busObs

\* rm: a RegulatoryModeSimulator object; rmLast: the observation of the
\* latest call on it
VARIABLES rm, rmLast

otaVars == <<ota, now, last, hist>>

dmVars == <<dm, dmLast>>

envVars == <<env, car, stack, delivered>>

simVars == <<sim, bg, fg>>

odVars == <<od, odLast, odTicks>>

busVars == <<bus, busStack, busObs>>

rmVars == <<rm, rmLast>>

clockVars == <<wall>>

\* al: the event bus's record of the alert events and the simulator's alert
\* sink, with the two threads that use them; alRet: what the latest
\* get_alerts returned
VARIABLES al, alRet

alertVars == <<al, alRet>>

\* rc: the two threads that call the OTA module, statement by statement:
\* where each stands, and for the session in flight the rollback alerts
\* published and whether _complete_update has written the version
VARIABLES rc

raceVars == <<rc>>

vars ==
    <<otaVars, dmVars, envVars, simVars, odVars, busVars, rmVars, clockVars,
      alertVars, raceVars>>

otherThanOta == <<dmVars, envVars, simVars, odVars, busVars, rmVars, clockVars, alertVars, raceVars>>

otherThanDm == <<otaVars, envVars, simVars, odVars, busVars, rmVars, clockVars, alertVars, raceVars>>

otherThanAlert ==
    <<otaVars, dmVars, envVars, simVars, odVars, busVars, rmVars, clockVars,
      raceVars>>

otherThanOtaRace ==
    <<dmVars, envVars, simVars, odVars, busVars, rmVars, clockVars, alertVars>>

otherThanEnv == <<otaVars, dmVars, simVars, odVars, busVars, rmVars, clockVars, alertVars, raceVars>>

otherThanSim == <<otaVars, dmVars, envVars, odVars, busVars, rmVars, clockVars, alertVars, raceVars>>

otherThanOd == <<otaVars, dmVars, envVars, simVars, busVars, rmVars, clockVars, alertVars, raceVars>>

otherThanBus ==
    <<otaVars, dmVars, envVars, simVars, odVars, rmVars, clockVars, alertVars, raceVars>>

otherThanRm ==
    <<otaVars, dmVars, envVars, simVars, odVars, busVars, clockVars, alertVars, raceVars>>

\* UpdateStatus
UpdateStatus == {"idle", "downloading", "validating", "installing",
                 "success", "failed", "rolled_back"}

\* a timer attribute holding None, or not yet created on the object
NoTime == -1

\* self._package_size (MB)
package_size == 100

\* self._simulated_bandwidth (MB/s)
simulated_bandwidth == 1

\* "Simulate validation taking 2 seconds"
validation_time == 2

\* install_time = 10.0
install_time == 10

\* strings are sequences of characters
SIG_2_0_0 == <<"s","h","a","2","5","6",":","a","b","c","1","2","3","d","e","f","4","5","6">>

SIG_1_1_0 == <<"s","h","a","2","5","6",":","f","e","d","4","5","6","c","b","a","3","2","1">>

\* self._valid_signatures
valid_signatures == [v \in {"2.0.0", "1.1.0"} |->
                        IF v = "2.0.0" THEN SIG_2_0_0 ELSE SIG_1_1_0]

\* the (version, signature) pairs offered to start_update: each version
\* with its own signature, a version with the other version's signature,
\* with the empty string and with a fragment of its signature, and a
\* version that has no signature
UpdateRequests ==
    {<<"2.0.0", SIG_2_0_0>>, <<"1.1.0", SIG_1_1_0>>, <<"2.0.0", SIG_1_1_0>>,
     <<"2.0.0", <<>>>>, <<"2.0.0", <<"s","h","a","2","5","6",":">>>>,
     <<"9.9.9", SIG_2_0_0>>, <<"9.9.9", <<>>>>}

\* Python's  s in t  for two strings: s occurs in t as a contiguous run
IsSubstring(s, t) ==
    \E i \in 0..(Len(t) - Len(s)) : SubSeq(t, i + 1, i + Len(s)) = s

\* _validate_signature:  signature in self._valid_signatures.get(version, [])
ValidateSignature(version, signature) ==
    IF version \in DOMAIN valid_signatures
    THEN IsSubstring(signature, valid_signatures[version])
    ELSE FALSE

\* AlertData published on the bus as Event("alert", ...)
AlertData(alert_type, severity, message) ==
    [alert_type |-> alert_type, severity |-> severity, message |-> message]

\* outcome of one call: the object afterwards, the value returned ("True",
\* "False" or "None"), the alerts published and the values written to
\* self.status, in order
Outcome(o, ret, alerts, trace) ==
    [o |-> o, ret |-> ret, alerts |-> alerts, trace |-> trace]

\* _notify_update_status
NotifyUpdateStatus(message) == AlertData("ota_status", "info", message)

\* _notify_update_error
NotifyUpdateError(message) == AlertData("ota_error", "critical", message)

\* min(1.0, elapsed / duration), in thousandths
Fraction(elapsed, duration) ==
    IF elapsed >= duration THEN 1000 ELSE (elapsed * 1000) \div duration

\* OTAUpdateSimulator.__init__
OtaInit ==
    [enabled |-> TRUE,
     status |-> "idle",
     current_version |-> "1.0.0",
     backup_version |-> "1.0.0",
     progress |-> 0,
     update_start_time |-> NoTime,
     simulate_failure |-> "absent",
     validation_start |-> NoTime,
     install_start |-> NoTime]

\* a rollback that restores the backup partition's version
TriggerRollbackRestoresBackup(o, reason) ==
    Outcome([o EXCEPT !.status = "idle", !.progress = 0,
                      !.current_version = o.backup_version],
            "None",
            <<AlertData("ota_rollback", "warning", <<"Update rolled back", reason>>)>>,
            <<"rolled_back", "idle">>)

\* _trigger_rollback
TriggerRollback(o, reason) ==
    Outcome([o EXCEPT !.status = "idle", !.progress = 0],
            "None",
            <<AlertData("ota_rollback", "warning", <<"Update rolled back", reason>>)>>,
            <<"rolled_back", "idle">>)

\* _complete_update
CompleteUpdate(o) ==
    Outcome([o EXCEPT !.backup_version = o.current_version,
                      !.current_version = "2.0.0",
                      !.status = "idle",
                      !.progress = 0],
            "None",
            <<NotifyUpdateStatus(<<"Update completed successfully to version", "2.0.0">>)>>,
            <<"success", "idle">>)

\* a start_update that checks only the enabled flag
StartUpdateIgnoresStatus(o, version, signature, simulate_failure, t) ==
    IF ~o.enabled
    THEN Outcome(o, "False",
                 <<NotifyUpdateError(<<"Update already in progress or system disabled">>)>>,
                 <<>>)
    ELSE IF ~ValidateSignature(version, signature)
    THEN Outcome([o EXCEPT !.status = "failed"], "False",
                 <<NotifyUpdateError(<<"Invalid signature for version", version>>)>>,
                 <<"failed">>)
    ELSE Outcome([o EXCEPT !.status = "downloading",
                           !.progress = 0,
                           !.update_start_time = t,
                           !.simulate_failure = IF simulate_failure THEN "True" ELSE "False"],
                 "True",
                 <<NotifyUpdateStatus(<<"Starting update to version", version>>)>>,
                 <<"downloading">>)

\* start_update
StartUpdate(o, version, signature, simulate_failure, t) ==
    IF ~o.enabled \/ o.status # "idle"
    THEN Outcome(o, "False",
                 <<NotifyUpdateError(<<"Update already in progress or system disabled">>)>>,
                 <<>>)
    ELSE IF ~ValidateSignature(version, signature)
    THEN Outcome([o EXCEPT !.status = "failed"], "False",
                 <<NotifyUpdateError(<<"Invalid signature for version", version>>)>>,
                 <<"failed">>)
    ELSE Outcome([o EXCEPT !.status = "downloading",
                           !.progress = 0,
                           !.update_start_time = t,
                           !.simulate_failure = IF simulate_failure THEN "True" ELSE "False"],
                 "True",
                 <<NotifyUpdateStatus(<<"Starting update to version", version>>)>>,
                 <<"downloading">>)

\* simulate_network_failure
SimulateNetworkFailure(o) ==
    IF o.status \in {"downloading", "installing"}
    THEN TriggerRollback(o, "Network failure during update")
    ELSE Outcome(o, "None", <<>>, <<>>)

\* a power failure that rolls back from downloading as well
SimulatePowerFailureWhileDownloading(o) ==
    IF o.status \in {"downloading", "installing"}
    THEN TriggerRollback(o, "Power failure during installation")
    ELSE Outcome(o, "None", <<>>, <<>>)

\* simulate_power_failure
SimulatePowerFailure(o) ==
    IF o.status = "installing"
    THEN TriggerRollback(o, "Power failure during installation")
    ELSE Outcome(o, "None", <<>>, <<>>)

\* _update_download_progress
UpdateDownloadProgress(o, t) ==
    IF o.update_start_time = NoTime
    THEN Outcome(o, "None", <<>>, <<>>)
    ELSE LET elapsed == t - o.update_start_time
             download_time == Sec(package_size) \div simulated_bandwidth
             p == Fraction(elapsed, download_time)
         IN  IF p >= 1000
             THEN Outcome([o EXCEPT !.status = "validating", !.progress = 0],
                          "None",
                          <<NotifyUpdateStatus(<<"Download complete, validating package">>)>>,
                          <<"validating">>)
             ELSE Outcome([o EXCEPT !.progress = p], "None", <<>>, <<>>)

\* _update_validation; t is the reading of time.time() stored as the start,
\* t2 the reading the elapsed time is taken from
UpdateValidation(o, t, t2) ==
    LET start == IF o.progress = 0 THEN t ELSE o.validation_start
        o1 == [o EXCEPT !.validation_start = start]
        p == Fraction(t2 - start, Sec(validation_time))
    IN  IF p >= 1000
        THEN IF o1.simulate_failure = "True"
             THEN TriggerRollback([o1 EXCEPT !.progress = p], "Package validation failed")
             ELSE Outcome([o1 EXCEPT !.status = "installing", !.progress = 0],
                          "None",
                          <<NotifyUpdateStatus(<<"Validation complete, installing update">>)>>,
                          <<"installing">>)
        ELSE Outcome([o1 EXCEPT !.progress = p], "None", <<>>, <<>>)

\* _update_installation; t is the reading of time.time() stored as the
\* start, t2 the reading the elapsed time is taken from
UpdateInstallation(o, t, t2) ==
    LET start == IF o.install_start = NoTime THEN t ELSE o.install_start
        o1 == [o EXCEPT !.install_start = start]
        p == Fraction(t2 - start, Sec(install_time))
    IN  IF p >= 1000
        THEN IF o1.simulate_failure = "True"
             THEN TriggerRollback([o1 EXCEPT !.progress = p], "Installation failed")
             ELSE CompleteUpdate([o1 EXCEPT !.progress = p])
        ELSE Outcome([o1 EXCEPT !.progress = p], "None", <<>>, <<>>)

\* update; t and t2 are the first and the second reading of time.time()
\* the call makes
Update(o, t, t2) ==
    IF ~o.enabled \/ o.status = "idle"
    THEN Outcome(o, "None", <<>>, <<>>)
    ELSE IF o.status = "downloading" THEN UpdateDownloadProgress(o, t2)
    ELSE IF o.status = "validating" THEN UpdateValidation(o, t, t2)
    ELSE IF o.status = "installing" THEN UpdateInstallation(o, t, t2)
    ELSE Outcome(o, "None", <<>>, <<>>)

\* how far two successive readings of time.time() within one update() may
\* lie apart: the clock may or may not have stepped between them.  Only a
\* call that stores one reading and subtracts it from the next makes two.
ReadingGaps(o) ==
    IF /\ o.enabled
       /\ \/ o.status = "validating" /\ o.progress = 0
          \/ o.status = "installing" /\ o.install_start = NoTime
    THEN {0, 1}
    ELSE {0}

\* the arguments recorded for a call that takes none
NoArgs == [version |-> "", signature |-> <<>>]

\* the observation of a call: which call, with which arguments, from which
\* status, and its outcome
Observe(op, args, r) ==
    [op |-> op, args |-> args, from |-> ota.status,
     ret |-> r.ret, alerts |-> r.alerts, trace |-> r.trace]

\* what is remembered of the session in flight: current_version as it was
\* when the session was accepted, the version the accepted start_update
\* was given ("" when no session is in flight), and the clock reading at
\* which the status became installing (NoTime outside that phase); t is the
\* clock reading the call ends at
HistAfter(op, args, r, t) ==
    LET accepted == op = "start_update" /\ r.ret = "True"
    IN  [pre_version |-> IF accepted THEN ota.current_version ELSE hist.pre_version,
         version |-> IF accepted THEN args.version
                     ELSE IF r.o.status \in {"idle", "failed"} THEN ""
                     ELSE hist.version,
         entered |-> IF r.o.status # "installing" THEN NoTime
                     ELSE IF ota.status = "installing" THEN hist.entered
                     ELSE t]

Call(op, args, r, t) ==
    /\ ota' = r.o
    /\ last' = Observe(op, args, r)
    /\ hist' = HistAfter(op, args, r, t)
    /\ now' = t
    /\ UNCHANGED otherThanOta

OtaStartUpdate ==
    \E req \in UpdateRequests, f \in BOOLEAN :
        Call("start_update",
             [version |-> req[1], signature |-> req[2]],
             StartUpdate(ota, req[1], req[2], f, now), now)

OtaNetworkFailure ==
    Call("simulate_network_failure", NoArgs, SimulateNetworkFailure(ota), now)

OtaPowerFailure ==
    Call("simulate_power_failure", NoArgs, SimulatePowerFailure(ota), now)

OtaTick ==
    \E gap \in ReadingGaps(ota) :
        Call("update", NoArgs, Update(ota, now, now + gap), now + gap)

\* enable
OtaEnable ==
    Call("enable", NoArgs, Outcome([ota EXCEPT !.enabled = TRUE], "None", <<>>, <<>>), now)

\* disable
OtaDisable ==
    Call("disable", NoArgs, Outcome([ota EXCEPT !.enabled = FALSE], "None", <<>>, <<>>), now)

\* time.time() moves forward between calls
ClockSteps == {Sec(Quantum), Sec(5 * Quantum)}

OtaAdvance ==
    \E d \in ClockSteps :
        /\ now + d <= Sec(MaxTime)
        /\ now' = now + d
        /\ last' = Observe("advance", NoArgs, Outcome(ota, "None", <<>>, <<>>))
        /\ UNCHANGED <<ota, hist>>
        /\ UNCHANGED otherThanOta

\* a stored clock reading seen from a clock set back by s; a reading that
\* far in the past lies further back than every duration the module measures
SetBack(t, s) == IF t = NoTime THEN NoTime ELSE IF t < s THEN 0 ELSE t - s

\* the module with its stored clock readings set back by s
ClockSetBack(o, s) ==
    [o EXCEPT !.update_start_time = SetBack(@, s),
              !.validation_start = SetBack(@, s),
              !.install_start = SetBack(@, s)]

\* a tick of the running simulation: time passes, d in all up to the last
\* clock reading of the call, then update() is called.  Time has no end:
\* once the clock would pass the largest reading followed, the clock stays
\* and every stored reading is set back by the time that passed, which
\* leaves every elapsed time the module computes as it is.
OtaLiveTick ==
    \E d \in ClockSteps, gap \in ReadingGaps(ota) :
        LET wraps == now + d > Sec(MaxTime)
            o == IF wraps THEN ClockSetBack(ota, d) ELSE ota
            t2 == IF wraps THEN now ELSE now + d
            r == Update(o, t2 - gap, t2)
            h == HistAfter("update", NoArgs, r, t2)
        IN  /\ ota' = r.o
            /\ last' = Observe("update", NoArgs, r)
            /\ hist' = [h EXCEPT !.entered =
                            IF wraps /\ ota.status = "installing"
                                     /\ r.o.status = "installing"
                            THEN SetBack(hist.entered, d) ELSE @]
            /\ now' = t2
            /\ UNCHANGED otherThanOta

\* The OTA module called from two threads: update() from the simulation
\* thread, the failure signals and start_update from the calling thread.
\* No lock is held, so the statements of _update_installation,
\* _complete_update and _trigger_rollback interleave with those of the
\* signal; each step below is a run of statements of one thread.
RcInit ==
    [pc |-> [t \in {"simulation", "calling"} |-> "idle"],
     rollbacks |-> 0,
     completed |-> FALSE]

\* a step of one thread of the two: the module and the threads afterwards
RcStep(o, c) ==
    /\ ota' = o
    /\ rc' = c
    /\ UNCHANGED <<now, last, hist>>
    /\ UNCHANGED otherThanOtaRace

\* start_update of the one version the whitelist holds a signature for
RcStartUpdate ==
    \E f \in BOOLEAN :
        LET r == StartUpdate(ota, "2.0.0", SIG_2_0_0, f, now)
            args == [version |-> "2.0.0", signature |-> SIG_2_0_0]
        IN  /\ rc.pc["calling"] = "idle"
            /\ ota' = r.o
            /\ last' = Observe("start_update", args, r)
            /\ hist' = HistAfter("start_update", args, r, now)
            /\ rc' = IF r.ret = "True"
                     THEN [rc EXCEPT !.rollbacks = 0, !.completed = FALSE]
                     ELSE rc
            /\ UNCHANGED now
            /\ UNCHANGED otherThanOtaRace

\* update() while the module downloads or validates
RcTick ==
    \E gap \in ReadingGaps(ota) :
        LET r == Update(ota, now, now + gap)
        IN  /\ rc.pc["simulation"] = "idle"
            /\ ota.status \in {"downloading", "validating"}
            /\ ota' = r.o
            /\ last' = Observe("update", NoArgs, r)
            /\ hist' = HistAfter("update", NoArgs, r, now + gap)
            /\ now' = now + gap
            /\ rc' = [rc EXCEPT !.rollbacks = @ + Len(SelectSeq(r.alerts,
                                     LAMBDA a : a.alert_type = "ota_rollback"))]
            /\ UNCHANGED otherThanOtaRace

\* update() finds the status installing: _update_installation up to the
\* test of progress >= 1.0 and of _simulate_failure
RcInstallation ==
    LET start == IF ota.install_start = NoTime THEN now ELSE ota.install_start
        p == Fraction(now - start, Sec(install_time))
    IN  /\ rc.pc["simulation"] = "idle"
        /\ ota.enabled
        /\ ota.status = "installing"
        /\ RcStep([ota EXCEPT !.install_start = start, !.progress = p],
                  [rc EXCEPT !.pc["simulation"] =
                       IF p < 1000 THEN "idle"
                       ELSE IF ota.simulate_failure = "True" THEN "rollback"
                       ELSE "complete"])

\* _complete_update: the versions, status SUCCESS and progress 1.0
RcCompleteUpdate ==
    /\ rc.pc["simulation"] = "complete"
    /\ RcStep([ota EXCEPT !.backup_version = ota.current_version,
                          !.current_version = "2.0.0",
                          !.status = "success",
                          !.progress = 1000],
              [rc EXCEPT !.pc["simulation"] = "complete_idle", !.completed = TRUE])

\* _complete_update: the notification and the reset to idle
RcCompleteIdle ==
    /\ rc.pc["simulation"] = "complete_idle"
    /\ RcStep([ota EXCEPT !.status = "idle", !.progress = 0],
              [rc EXCEPT !.pc["simulation"] = "idle"])

\* simulate_network_failure and simulate_power_failure: the test of the status
RcSignal ==
    \E signal \in {"network", "power"} :
        /\ rc.pc["calling"] = "idle"
        /\ RcStep(ota,
                  [rc EXCEPT !.pc["calling"] =
                       IF ota.status \in (IF signal = "network"
                                          THEN {"downloading", "installing"}
                                          ELSE {"installing"})
                       THEN "rollback" ELSE "idle"])

\* _trigger_rollback: status ROLLED_BACK and progress 1.0
RcRollback ==
    \E t \in DOMAIN rc.pc :
        /\ rc.pc[t] = "rollback"
        /\ RcStep([ota EXCEPT !.status = "rolled_back", !.progress = 1000],
                  [rc EXCEPT !.pc[t] = "rollback_alert"])

\* _trigger_rollback: the ota_rollback alert is published
RcRollbackAlert ==
    \E t \in DOMAIN rc.pc :
        /\ rc.pc[t] = "rollback_alert"
        /\ RcStep(ota, [rc EXCEPT !.pc[t] = "rollback_idle", !.rollbacks = @ + 1])

\* _trigger_rollback: the reset to idle
RcRollbackIdle ==
    \E t \in DOMAIN rc.pc :
        /\ rc.pc[t] = "rollback_idle"
        /\ RcStep([ota EXCEPT !.status = "idle", !.progress = 0],
                  [rc EXCEPT !.pc[t] = "idle"])

\* ------------------------------------------------------------------------
\* Driver monitoring module (carport_sdk/features/driver_monitoring.py)
\* ------------------------------------------------------------------------
\* largest accumulated time looking away explored (seconds)
MaxAway == 20

\* self.alert_threshold = 5.0
default_alert_threshold == 5

\* thresholds given to set_alert_threshold, durations given to
\* simulate_gaze_away, gaze directions given to simulate_gaze_direction
Thresholds == {2, default_alert_threshold}

Durations == {0, 4, 5, 10, 15}

Directions == {"forward", "left"}

\* time.time() - self._last_update_time as update() finds it (seconds)
Deltas == {0, 5}

\* attention_level is kept in tenths (0..10)
Min(a, b) == IF a < b THEN a ELSE b

Max(a, b) == IF a > b THEN a ELSE b

\* DriverState()
DriverStateInit ==
    [gaze_direction |-> "forward", attention_level |-> 10,
     eyes_closed |-> FALSE, time_looking_away |-> 0]

\* DriverMonitoringSimulator.__init__
DmInit ==
    [enabled |-> TRUE,
     alert_threshold |-> default_alert_threshold,
     time_looking_away |-> 0,
     alert_level |-> 0,
     driver_state |-> DriverStateInit]

\* outcome of one call: the object afterwards and the alerts and events
\* published, in order
DmOutcome(d, alerts, events) == [d |-> d, alerts |-> alerts, events |-> events]

\* _trigger_alert
TriggerAlert(level) ==
    AlertData("driver_attention",
              IF level < 3 THEN "warning" ELSE "critical",
              <<"Driver attention required",
                CASE level = 1 -> "visual" [] level = 2 -> "audible"
                  [] level = 3 -> "haptic" [] OTHER -> "unknown">>)

\* _reset_alerts
ResetAlerts(d) == [d EXCEPT !.alert_level = 0]

\* an evaluation that follows the computed level down as well as up
CheckAlertConditionsDeescalating(d) ==
    IF ~d.enabled
    THEN DmOutcome(d, <<>>, <<>>)
    ELSE IF d.time_looking_away >= d.alert_threshold
    THEN LET new_level ==
                 IF d.time_looking_away >= d.alert_threshold * 3 THEN 3
                 ELSE IF d.time_looking_away >= d.alert_threshold * 2 THEN 2
                 ELSE 1
         IN  IF new_level # d.alert_level
             THEN DmOutcome([d EXCEPT !.alert_level = new_level],
                            <<TriggerAlert(new_level)>>, <<>>)
             ELSE DmOutcome(d, <<>>, <<>>)
    ELSE DmOutcome(d, <<>>, <<>>)

\* _check_alert_conditions
CheckAlertConditions(d) ==
    IF ~d.enabled
    THEN DmOutcome(d, <<>>, <<>>)
    ELSE IF d.time_looking_away >= d.alert_threshold
    THEN LET new_level ==
                 IF d.time_looking_away >= d.alert_threshold * 3 THEN 3
                 ELSE IF d.time_looking_away >= d.alert_threshold * 2 THEN 2
                 ELSE 1
         IN  IF new_level > d.alert_level
             THEN DmOutcome([d EXCEPT !.alert_level = new_level],
                            <<TriggerAlert(new_level)>>, <<>>)
             ELSE DmOutcome(d, <<>>, <<>>)
    ELSE DmOutcome(d, <<>>, <<>>)

\* set_alert_threshold
SetAlertThreshold(d, threshold) ==
    DmOutcome([d EXCEPT !.alert_threshold = threshold], <<>>, <<>>)

\* enable
DmEnabled(d) == DmOutcome([d EXCEPT !.enabled = TRUE], <<>>, <<>>)

\* disable
DmDisabled(d) == DmOutcome(ResetAlerts([d EXCEPT !.enabled = FALSE]), <<>>, <<>>)

\* a forward gaze that resets the counter but not the alert level
SimulateGazeDirectionKeepsLevel(d, direction) ==
    LET d1 == [d EXCEPT !.driver_state.gaze_direction = direction]
    IN  IF direction # "forward"
        THEN DmOutcome([d1 EXCEPT !.driver_state.attention_level =
                                      Max(0, d1.driver_state.attention_level - 1)],
                       <<>>, <<>>)
        ELSE DmOutcome([d1 EXCEPT !.driver_state.attention_level =
                                      Min(10, d1.driver_state.attention_level + 2),
                                  !.time_looking_away = 0],
                       <<>>, <<>>)

\* simulate_gaze_direction
SimulateGazeDirection(d, direction) ==
    LET d1 == [d EXCEPT !.driver_state.gaze_direction = direction]
    IN  IF direction # "forward"
        THEN DmOutcome([d1 EXCEPT !.driver_state.attention_level =
                                      Max(0, d1.driver_state.attention_level - 1)],
                       <<>>, <<>>)
        ELSE DmOutcome(ResetAlerts(
                         [d1 EXCEPT !.driver_state.attention_level =
                                        Min(10, d1.driver_state.attention_level + 2),
                                    !.time_looking_away = 0]),
                       <<>>, <<>>)

\* simulate_gaze_away
SimulateGazeAway(d, duration) ==
    CheckAlertConditions([d EXCEPT !.time_looking_away = duration,
                                   !.driver_state.gaze_direction = "away",
                                   !.driver_state.time_looking_away = duration])

\* simulate_eyes_closed
SimulateEyesClosed(d, closed) ==
    LET d1 == [d EXCEPT !.driver_state.eyes_closed = closed]
    IN  DmOutcome(IF closed THEN [d1 EXCEPT !.driver_state.attention_level = 0] ELSE d1,
                  <<>>, <<>>)

\* update; delta_time is current_time - self._last_update_time, the time
\* since the previous enabled update (or since construction)
DmUpdate(d, delta_time) ==
    IF ~d.enabled
    THEN DmOutcome(d, <<>>, <<>>)
    ELSE LET d1 == d
             d2 == IF d1.driver_state.gaze_direction # "forward"
                   THEN [d1 EXCEPT !.time_looking_away = d1.time_looking_away + delta_time,
                                   !.driver_state.time_looking_away =
                                        d1.time_looking_away + delta_time]
                   ELSE d1
             r == CheckAlertConditions(d2)
         IN  DmOutcome(r.d, r.alerts, <<"driver_state_update">>)

\* the argument recorded for a call: a number or a string
NumArg(n) == [num |-> n, str |-> ""]

StrArg(x) == [num |-> 0, str |-> x]

\* the observation of a call: which call, with which argument, the level
\* and the counter it found, and what it published
DmObserve(op, arg, r) ==
    [op |-> op, arg |-> arg,
     level_before |-> dm.alert_level,
     alerts |-> r.alerts, events |-> r.events]

DmCall(op, arg, r) ==
    /\ dm' = r.d
    /\ dmLast' = DmObserve(op, arg, r)
    /\ UNCHANGED otherThanDm

DmSetAlertThreshold ==
    \E th \in Thresholds : DmCall("set_alert_threshold", NumArg(th), SetAlertThreshold(dm, th))

DmEnable == DmCall("enable", NumArg(0), DmEnabled(dm))

DmDisable == DmCall("disable", NumArg(0), DmDisabled(dm))

DmSimulateGazeDirection ==
    \E dir \in Directions :
        DmCall("simulate_gaze_direction", StrArg(dir), SimulateGazeDirection(dm, dir))

DmSimulateGazeAway ==
    \E dur \in Durations : DmCall("simulate_gaze_away", NumArg(dur), SimulateGazeAway(dm, dur))

DmSimulateEyesClosed ==
    \E c \in BOOLEAN : DmCall("simulate_eyes_closed", StrArg(IF c THEN "True" ELSE "False"), SimulateEyesClosed(dm, c))

DmTick ==
    \E delta \in Deltas :
        /\ dm.time_looking_away + delta <= MaxAway
        /\ DmCall("update", NumArg(delta), DmUpdate(dm, delta))

\* ------------------------------------------------------------------------
\* Simulation environment and car (drivepilot_simulator/core)
\*
\* One thread calls the environment and the car.  A call runs up to the
\* point where it publishes an event; publish_event takes the environment's
\* lock, a threading.Lock, which is not reentrant: a thread that asks for it
\* while holding it waits forever.  Latitudes and longitudes are kept in
\* ten-thousandths of a degree, speeds in ten-thousandths of a km/h (products
\* with two weather factors are rounded down to that unit), weather factors
\* in percent.
\* ------------------------------------------------------------------------
\* SimulationConfig.max_log_size as configured for the runs explored
MaxLog == 2

Deg(n) == n * 10000

Kmh(n) == n * 10000

Abs(x) == IF x < 0 THEN 0 - x ELSE x

\* positions given to set_location: Berlin, New York, Tokyo, Sydney
Locations ==
    {[latitude |-> 525200, longitude |-> 134049],
     [latitude |-> 407128, longitude |-> 0 - 740060],
     [latitude |-> 356762, longitude |-> 1396503],
     [latitude |-> 0 - 338688, longitude |-> 1512093]}

\* conditions given to set_weather_conditions: clear, rain, fog
Weathers ==
    {[precipitation |-> 0, visibility |-> 10000, wind_speed |-> 0],
     [precipitation |-> 2, visibility |-> 10000, wind_speed |-> 0],
     [precipitation |-> 0, visibility |-> 500, wind_speed |-> 0]}

\* limits given to set_speed_limit and speeds given to drive_to (km/h)
SpeedLimits == {30, 50}

DriveSpeeds == {50}

\* Event: its type and the data the handlers read
Event(event_type, new_region, new_conditions) ==
    [event_type |-> event_type, new_region |-> new_region,
     new_conditions |-> new_conditions]

NoConditions == [precipitation |-> 0, visibility |-> 10000, wind_speed |-> 0]

Ev(event_type) == Event(event_type, "", NoConditions)

\* a frame of the call stack: the function, where it stands ("run": in its
\* body; for publish_event "acquire": waiting for the lock, "deliver":
\* calling the subscribers), the events it has still to publish, the event
\* being published and the next subscriber, whether it releases the
\* environment's lock when it returns
Frame(fn, todo, releases) ==
    [fn |-> fn, pc |-> "run", todo |-> todo, ev |-> Ev(""), i |-> 0,
     releases |-> releases]

PublishFrame(ev) ==
    [fn |-> "publish_event", pc |-> "acquire", todo |-> <<>>, ev |-> ev, i |-> 0,
     releases |-> TRUE]

\* time.time() when the environment and the car are constructed (seconds)
WallEpoch == 1000

\* the longest time followed after construction (seconds)
MaxElapsed == 8

\* the time that passes between two calls on the car (seconds)
WallSteps == {1, 3}

\* the most obstacles in status.obstacles_detected in the runs explored
MaxDetected == 2

\* obstacle types and distances (m) given to detect_obstacle
DetectedTypes == {"pedestrian", "animal", "static_object"}

DetectedDistances == {4, 30}

\* alert_threshold given to enable_driver_monitoring (seconds)
AttentionThresholds == {2}

\* SimulationEnvironment.__init__
EnvInit ==
    [running |-> FALSE,
     start_time |-> WallEpoch,
     lock |-> FALSE,
     event_log |-> <<>>,
     weather_conditions |-> [precipitation |-> 0, visibility |-> 10000, wind_speed |-> 0],
     current_location |-> [latitude |-> 525200, longitude |-> 134049],
     current_region |-> "EU"]

\* VehicleStatus() and Car.__init__
CarInit ==
    [driver_monitoring_enabled |-> FALSE,
     adaptive_speed_enabled |-> FALSE,
     regulatory_mode_enabled |-> FALSE,
     obstacle_detection_enabled |-> FALSE,
     driver_attention_threshold |-> 5,
     last_attention_check |-> WallEpoch,
     status |-> [state |-> "parked",
                 driver_state |-> "attentive",
                 attention_time |-> 0,
                 obstacles_detected |-> <<>>,
                 speed |-> 0,
                 target_speed |-> 0,
                 speed_limit |-> Kmh(50),
                 weather_factor |-> 100,
                 current_region |-> "EU",
                 compliance_mode |-> "standard",
                 enabled_features |->
                     {"driver_monitoring", "adaptive_speed", "obstacle_detection"}]]

\* self._event_subscribers after Car.__init__ (_subscribe_to_environment_events)
\* and the test's setup_method, which subscribes event_handler to every type
Subscribers(event_type) ==
    IF event_type = "weather_change" THEN <<"_handle_weather_change", "event_handler">>
    ELSE IF event_type = "region_changed" THEN <<"_handle_region_change", "event_handler">>
    ELSE <<"event_handler">>

\* _detect_region
DetectRegion(latitude, longitude) ==
    IF Deg(35) <= latitude /\ latitude <= Deg(70)
       /\ Deg(0 - 10) <= longitude /\ longitude <= Deg(40)
    THEN "EU"
    ELSE IF Deg(25) <= latitude /\ latitude <= Deg(49)
            /\ Deg(0 - 125) <= longitude /\ longitude <= Deg(0 - 66)
    THEN "US"
    ELSE IF Deg(20) <= latitude /\ latitude <= Deg(45)
            /\ Deg(73) <= longitude /\ longitude <= Deg(153)
    THEN "CN"
    ELSE IF Deg(31) <= latitude /\ latitude <= Deg(46)
            /\ Deg(129) <= longitude /\ longitude <= Deg(146)
    THEN "JP"
    ELSE "OTHER"

\* what a function of the car does before it returns: the car afterwards
\* and the events it publishes, in order
Effect(c, todo) == [car |-> c, todo |-> todo]

\* _adjust_speed_gradually
AdjustSpeedGradually(c, target_speed) ==
    IF ~c.adaptive_speed_enabled
    THEN Effect(c, <<>>)
    ELSE LET c1 == [c EXCEPT !.status.target_speed = target_speed]
             adjusted_target == (target_speed * c.status.weather_factor) \div 100
             speed_diff == Abs(c.status.speed - adjusted_target)
         IN  IF speed_diff > Kmh(1) \div 10
             THEN Effect([c1 EXCEPT !.status.speed = adjusted_target],
                         <<Ev("speed_adjusted")>>)
             ELSE Effect(c1, <<>>)

\* the weather factor _handle_weather_change computes, in percent
WeatherFactor(weather) ==
    LET f1 == IF weather.precipitation > 0
              THEN Max(70, 100 - 10 * weather.precipitation) ELSE 100
        f2 == IF weather.visibility < 1000
              THEN Max(50, weather.visibility \div 10) ELSE 100
        f3 == IF weather.wind_speed > 50
              THEN Max(80, 100 - (weather.wind_speed - 50)) ELSE 100
    IN  (f1 * f2 * f3) \div 10000

\* _handle_weather_change
HandleWeatherChange(c, ev) ==
    IF ~c.adaptive_speed_enabled
    THEN Effect(c, <<>>)
    ELSE LET weather_factor == WeatherFactor(ev.new_conditions)
             old_factor == c.status.weather_factor
             c1 == [c EXCEPT !.status.weather_factor = weather_factor]
         IN  IF Abs(weather_factor - old_factor) > 5
             THEN AdjustSpeedGradually(c1, (c1.status.speed_limit * weather_factor) \div 100)
             ELSE Effect(c1, <<>>)

\* _get_compliance_mode
GetComplianceMode(region) ==
    CASE region = "EU" -> "eu_standard"
      [] region = "US" -> "fmvss"
      [] region = "CN" -> "gb_standard"
      [] region = "JP" -> "jis_standard"
      [] OTHER -> "international"

\* restricted_features.get(region, [])
RestrictedFeatures(region) ==
    IF region = "CN" THEN <<"driver_monitoring">> ELSE <<>>

\* _update_regional_features
UpdateRegionalFeatures(c, region) ==
    LET blocked == SelectSeq(RestrictedFeatures(region),
                             LAMBDA f : f \in c.status.enabled_features)
    IN  Effect([c EXCEPT !.status.enabled_features =
                             @ \ {blocked[k] : k \in DOMAIN blocked}],
               [k \in DOMAIN blocked |-> Ev("feature_blocked")])

\* _handle_region_change
HandleRegionChange(c, ev) ==
    IF ~c.regulatory_mode_enabled
    THEN Effect(c, <<>>)
    ELSE IF ev.new_region # ""
    THEN LET c1 == [c EXCEPT !.status.current_region = ev.new_region,
                             !.status.compliance_mode = GetComplianceMode(ev.new_region)]
             r == UpdateRegionalFeatures(c1, ev.new_region)
         IN  Effect(r.car, r.todo \o <<Ev("compliance_mode_changed")>>)
    ELSE Effect(c, <<>>)

\* the subscriber callbacks: what calling one does to the car
Handler(name, c, ev) ==
    IF name = "_handle_weather_change" THEN HandleWeatherChange(c, ev)
    ELSE IF name = "_handle_region_change" THEN HandleRegionChange(c, ev)
    ELSE Effect(c, <<>>)

Idle == stack = <<>>

Top == stack[Len(stack)]

Popped == SubSeq(stack, 1, Len(stack) - 1)

\* a call made from outside: the thread runs the function to its first
\* publish_event (or to its end)
Enter(frames) == stack' = frames

\* SimulationEnvironment.start
EnvStart ==
    /\ Idle
    /\ ~env.lock
    /\ IF env.running
       THEN UNCHANGED <<env, stack>>
       ELSE /\ env' = [env EXCEPT !.running = TRUE, !.lock = TRUE,
                                   !.start_time = wall]
            /\ Enter(<<Frame("start", <<Ev("simulation_started")>>, TRUE)>>)
    /\ UNCHANGED <<car, delivered>>
    /\ UNCHANGED otherThanEnv

\* SimulationEnvironment.stop
EnvStop ==
    /\ Idle
    /\ ~env.lock
    /\ IF ~env.running
       THEN UNCHANGED <<env, stack>>
       ELSE /\ env' = [env EXCEPT !.running = FALSE, !.lock = TRUE]
            /\ Enter(<<Frame("stop", <<Ev("simulation_stopped")>>, TRUE)>>)
    /\ UNCHANGED <<car, delivered>>
    /\ UNCHANGED otherThanEnv

\* SimulationEnvironment.set_location
EnvSetLocation ==
    \E location \in Locations :
        LET old_region == env.current_region
            new_region == DetectRegion(location.latitude, location.longitude)
        IN  /\ Idle
            /\ env' = [env EXCEPT !.current_location = location,
                                  !.current_region = new_region]
            /\ Enter(<<Frame("set_location",
                             IF new_region # old_region
                             THEN <<Event("region_changed", new_region, NoConditions)>>
                             ELSE <<>>,
                             FALSE)>>)
            /\ UNCHANGED <<car, delivered>>
            /\ UNCHANGED otherThanEnv

\* SimulationEnvironment.set_weather_conditions
EnvSetWeatherConditions ==
    \E conditions \in Weathers :
        /\ Idle
        /\ env' = [env EXCEPT !.weather_conditions = conditions]
        /\ Enter(<<Frame("set_weather_conditions",
                         <<Event("weather_change", "", conditions)>>, FALSE)>>)
        /\ UNCHANGED <<car, delivered>>
        /\ UNCHANGED otherThanEnv

\* a call on the car: its effect on the car, then the events it publishes
CarCall(fn, r) ==
    /\ Idle
    /\ car' = r.car
    /\ Enter(<<Frame(fn, r.todo, FALSE)>>)
    /\ UNCHANGED <<env, delivered>>
    /\ UNCHANGED otherThanEnv

\* enable_obstacle_detection
CarEnableObstacleDetection ==
    CarCall("enable_obstacle_detection",
            Effect([car EXCEPT !.obstacle_detection_enabled = TRUE,
                               !.status.enabled_features = @ \cup {"obstacle_detection"}],
                   <<>>))

\* disable_obstacle_detection
CarDisableObstacleDetection ==
    CarCall("disable_obstacle_detection",
            Effect([car EXCEPT !.obstacle_detection_enabled = FALSE,
                               !.status.enabled_features = @ \ {"obstacle_detection"},
                               !.status.obstacles_detected = <<>>],
                   <<>>))

\* emergency_stop
EmergencyStop(c) ==
    Effect([c EXCEPT !.status.state = "emergency_stop",
                     !.status.speed = 0,
                     !.status.target_speed = 0],
           <<Ev("emergency_stop")>>)

CarEmergencyStop == CarCall("emergency_stop", EmergencyStop(car))

\* _handle_obstacle_response; distance in metres
HandleObstacleResponse(c, obstacle_type, distance) ==
    IF obstacle_type = "pedestrian" /\ distance < 10
    THEN EmergencyStop(c)
    ELSE IF obstacle_type = "animal" /\ distance < 20
    THEN AdjustSpeedGradually(c, Max(Kmh(20), c.status.speed \div 2))
    ELSE IF obstacle_type = "static_object" /\ distance < 5
    THEN AdjustSpeedGradually(c, Max(Kmh(10), (c.status.speed * 3) \div 10))
    ELSE Effect(c, <<>>)

\* detect_obstacle
DetectObstacle(c, obstacle_type, distance) ==
    IF ~c.obstacle_detection_enabled
    THEN Effect(c, <<>>)
    ELSE LET c1 == [c EXCEPT !.status.obstacles_detected =
                                 Append(@, [type |-> obstacle_type,
                                            distance |-> distance])]
             r == HandleObstacleResponse(c1, obstacle_type, distance)
         IN  Effect(r.car, <<Ev("obstacle_detected")>> \o r.todo)

CarDetectObstacle ==
    \E obstacle_type \in DetectedTypes, distance \in DetectedDistances :
        /\ Len(car.status.obstacles_detected) < MaxDetected
        /\ CarCall("detect_obstacle", DetectObstacle(car, obstacle_type, distance))

\* get_simulation_time while the environment runs (time_scale is 1.0)
GetSimulationTime(e, w) == w - e.start_time

\* _get_timestamp
GetTimestamp(e, w) == IF e.running THEN GetSimulationTime(e, w) ELSE w

\* enable_driver_monitoring
EnableDriverMonitoring(c, alert_threshold) ==
    Effect([c EXCEPT !.driver_monitoring_enabled = TRUE,
                     !.driver_attention_threshold = alert_threshold,
                     !.status.enabled_features = @ \cup {"driver_monitoring"}],
           <<Ev("vehicle_state_changed")>>)

CarEnableDriverMonitoring ==
    \E alert_threshold \in AttentionThresholds :
        CarCall("enable_driver_monitoring", EnableDriverMonitoring(car, alert_threshold))

\* disable_driver_monitoring
CarDisableDriverMonitoring ==
    CarCall("disable_driver_monitoring",
            Effect([car EXCEPT !.driver_monitoring_enabled = FALSE,
                               !.status.enabled_features = @ \ {"driver_monitoring"},
                               !.status.driver_state = "attentive"],
                   <<>>))

\* _escalate_driver_alerts
EscalateDriverAlerts(c) ==
    LET attention_time == c.status.attention_time
        threshold == c.driver_attention_threshold
    IN  IF attention_time > threshold * 3
        THEN Effect([c EXCEPT !.status.driver_state = "alert_level_3"],
                    <<Ev("driver_alert_haptic")>>)
        ELSE IF attention_time > threshold * 2
        THEN Effect([c EXCEPT !.status.driver_state = "alert_level_2"],
                    <<Ev("driver_alert_audible")>>)
        ELSE IF attention_time > threshold
        THEN Effect([c EXCEPT !.status.driver_state = "alert_level_1"],
                    <<Ev("driver_alert_visual")>>)
        ELSE Effect(c, <<>>)

\* update_driver_attention
UpdateDriverAttention(c, is_attentive, current_time) ==
    IF ~c.driver_monitoring_enabled
    THEN Effect(c, <<>>)
    ELSE IF is_attentive
    THEN Effect([c EXCEPT !.status.driver_state = "attentive",
                          !.status.attention_time = 0,
                          !.last_attention_check = current_time],
                <<Ev("driver_attention_regained")>>)
    ELSE LET time_since_last_check == current_time - c.last_attention_check
             c1 == [c EXCEPT !.status.attention_time = @ + time_since_last_check,
                             !.last_attention_check = current_time]
         IN  IF c1.status.attention_time > c1.driver_attention_threshold
             THEN EscalateDriverAlerts(c1)
             ELSE Effect(c1, <<>>)

CarUpdateDriverAttention ==
    \E is_attentive \in BOOLEAN :
        CarCall("update_driver_attention",
                UpdateDriverAttention(car, is_attentive, GetTimestamp(env, wall)))

\* time passes between two calls
WallTick ==
    /\ Idle
    /\ \E d \in WallSteps :
          /\ wall + d <= WallEpoch + MaxElapsed
          /\ wall' = wall + d
    /\ UNCHANGED <<otaVars, dmVars, envVars, simVars, odVars, busVars, rmVars,
                   alertVars, raceVars>>

\* enable_regulatory_mode
CarEnableRegulatoryMode ==
    CarCall("enable_regulatory_mode",
            Effect([car EXCEPT !.regulatory_mode_enabled = TRUE,
                               !.status.enabled_features = @ \cup {"regulatory_mode"}],
                   <<>>))

\* disable_regulatory_mode
CarDisableRegulatoryMode ==
    CarCall("disable_regulatory_mode",
            Effect([car EXCEPT !.regulatory_mode_enabled = FALSE,
                               !.status.enabled_features = @ \ {"regulatory_mode"}],
                   <<>>))

\* enable_adaptive_speed
CarEnableAdaptiveSpeed ==
    CarCall("enable_adaptive_speed",
            Effect([car EXCEPT !.adaptive_speed_enabled = TRUE,
                               !.status.enabled_features = @ \cup {"adaptive_speed"}],
                   <<>>))

\* disable_adaptive_speed
CarDisableAdaptiveSpeed ==
    CarCall("disable_adaptive_speed",
            Effect([car EXCEPT !.adaptive_speed_enabled = FALSE,
                               !.status.enabled_features = @ \ {"adaptive_speed"}],
                   <<>>))

\* set_speed_limit
SetSpeedLimit(c, speed_limit) ==
    IF ~c.adaptive_speed_enabled
    THEN Effect(c, <<>>)
    ELSE LET c1 == [c EXCEPT !.status.speed_limit = speed_limit]
             r == IF speed_limit < c1.status.speed
                  THEN AdjustSpeedGradually(c1, speed_limit)
                  ELSE Effect(c1, <<>>)
         IN  Effect(r.car, r.todo \o <<Ev("speed_zone_entered")>>)

CarSetSpeedLimit ==
    \E limit \in SpeedLimits : CarCall("set_speed_limit", SetSpeedLimit(car, Kmh(limit)))

\* drive_to
DriveTo(c, speed) ==
    IF c.status.state # "emergency_stop"
    THEN LET target == Min(speed, c.status.speed_limit)
         IN  AdjustSpeedGradually([c EXCEPT !.status.state = "moving",
                                            !.status.target_speed = target],
                                  target)
    ELSE Effect(c, <<>>)

CarDriveTo ==
    \E speed \in DriveSpeeds : CarCall("drive_to", DriveTo(car, Kmh(speed)))

\* stop_simulation
CarStopSimulation ==
    CarCall("stop_simulation",
            Effect([car EXCEPT !.status.state = "parked",
                               !.status.speed = 0,
                               !.status.target_speed = 0],
                   <<>>))

\* start_simulation: the car leaves PARKED, then starts the environment
\* unless it is running
CarStartSimulation ==
    /\ Idle
    /\ ~env.lock
    /\ car' = [car EXCEPT !.status.state =
                              IF @ = "parked" THEN "stationary" ELSE @]
    /\ IF env.running
       THEN /\ Enter(<<Frame("start_simulation", <<>>, FALSE)>>)
            /\ UNCHANGED env
       ELSE /\ env' = [env EXCEPT !.running = TRUE, !.lock = TRUE,
                                   !.start_time = wall]
            /\ Enter(<<Frame("start_simulation", <<>>, FALSE),
                       Frame("start", <<Ev("simulation_started")>>, TRUE)>>)
    /\ UNCHANGED delivered
    /\ UNCHANGED otherThanEnv

\* a function in its body calls publish_event with its next event
PublishCall ==
    /\ ~Idle
    /\ Top.fn # "publish_event"
    /\ Top.todo # <<>>
    /\ stack' = Popped \o <<[Top EXCEPT !.todo = Tail(@)], PublishFrame(Head(Top.todo))>>
    /\ UNCHANGED <<env, car, delivered>>
    /\ UNCHANGED otherThanEnv

\* self._event_log after the append and the trim
Logged(log, ev) ==
    LET appended == Append(log, ev.event_type)
    IN  IF Len(appended) > MaxLog
        THEN SubSeq(appended, Len(appended) - MaxLog + 1, Len(appended))
        ELSE appended

\* publish_event: with self._lock, then the event is logged
PublishAcquire ==
    /\ ~Idle
    /\ Top.fn = "publish_event"
    /\ Top.pc = "acquire"
    /\ ~env.lock
    /\ env' = [env EXCEPT !.lock = TRUE, !.event_log = Logged(@, Top.ev)]
    /\ stack' = Popped \o <<[Top EXCEPT !.pc = "deliver", !.i = 1]>>
    /\ UNCHANGED <<car, delivered>>
    /\ UNCHANGED otherThanEnv

\* publish_event: the next subscriber is called
PublishDeliver ==
    /\ ~Idle
    /\ Top.fn = "publish_event"
    /\ Top.pc = "deliver"
    /\ Top.i <= Len(Subscribers(Top.ev.event_type))
    /\ LET name == Subscribers(Top.ev.event_type)[Top.i]
           r == Handler(name, car, Top.ev)
       IN  /\ car' = r.car
           /\ delivered' = IF name = "event_handler"
                           THEN delivered \cup {Top.ev.event_type}
                           ELSE delivered
           /\ stack' = Popped \o <<[Top EXCEPT !.i = @ + 1], Frame(name, r.todo, FALSE)>>
    /\ UNCHANGED env
    /\ UNCHANGED otherThanEnv

\* a function returns: publish_event when every subscriber has been called,
\* any other when it has nothing left to publish; leaving a  with self._lock
\* block releases the lock
Return ==
    /\ ~Idle
    /\ IF Top.fn = "publish_event"
       THEN Top.pc = "deliver" /\ Top.i > Len(Subscribers(Top.ev.event_type))
       ELSE Top.todo = <<>>
    /\ stack' = Popped
    /\ env' = IF Top.releases THEN [env EXCEPT !.lock = FALSE] ELSE env
    /\ UNCHANGED <<car, delivered>>
    /\ UNCHANGED otherThanEnv

\* the thread waits for the environment's lock while it holds it itself
BlockedOnOwnLock ==
    /\ ~Idle
    /\ Top.fn = "publish_event"
    /\ Top.pc = "acquire"
    /\ env.lock

\* the alert tier of a driver state: none, visual, audible, haptic
Tier(driver_state) ==
    CASE driver_state = "alert_level_1" -> 1
      [] driver_state = "alert_level_2" -> 2
      [] driver_state = "alert_level_3" -> 3
      [] OTHER -> 0

\* the driver-alert event of a tier
TierAlert(tier) ==
    CASE tier = 1 -> "driver_alert_visual"
      [] tier = 2 -> "driver_alert_audible"
      [] OTHER -> "driver_alert_haptic"

\* ------------------------------------------------------------------------
\* Event bus (carport_sdk/core/events.py)
\*
\* publish walks the live subscriber list of the event's type by position,
\* as a Python for loop over a list does, one callback per step.  The
\* callbacks are those listed below.  An event carries its type and the
\* number of publish calls made before it.
\* ------------------------------------------------------------------------
\* the most registrations per event type made from outside a delivery
MaxSubs == 2

\* the most publish calls made from outside a delivery in a run
MaxPublishes == 3

EventTypes == {"a", "b"}

\* the callbacks: h_ok returns; h_raise raises a ValueError; h_pub publishes
\* an event of type "b"; h_once unsubscribes itself from the event's type
Callbacks == {"h_ok", "h_raise", "h_pub", "h_once"}

\* the callbacks registered for a type (h_pub only for "a", so that a
\* delivery ends)
CallbacksFor(event_type) ==
    IF event_type = "a" THEN Callbacks ELSE Callbacks \ {"h_pub"}

\* EventBus.__init__
BusInit ==
    [subscribers |-> [t \in EventTypes |-> <<>>],
     event_history |-> <<>>,
     published |-> 0]

BusEvent(event_type, n) == [event_type |-> event_type, n |-> n]

\* list.remove: the first occurrence goes
RemoveFirst(list, x) ==
    IF \E k \in DOMAIN list : list[k] = x
    THEN LET k == CHOOSE k \in DOMAIN list :
                      list[k] = x /\ \A j \in 1..(k - 1) : list[j] # x
         IN  SubSeq(list, 1, k - 1) \o SubSeq(list, k + 1, Len(list))
    ELSE list

\* subscribe
Subscribe(b, event_type, callback) ==
    [b EXCEPT !.subscribers[event_type] = Append(@, callback)]

\* unsubscribe
Unsubscribe(b, event_type, callback) ==
    [b EXCEPT !.subscribers[event_type] = RemoveFirst(@, callback)]

\* a publish that puts the event in front of the history
HistoryPrepend(b, event_type) ==
    [b EXCEPT !.event_history = <<BusEvent(event_type, b.published)>> \o @,
              !.published = @ + 1]

\* publish: self._event_history.append(event)
HistoryAppend(b, event_type) ==
    [b EXCEPT !.event_history = Append(@, BusEvent(event_type, b.published)),
              !.published = @ + 1]

\* get_event_history
GetEventHistory(b, event_type) ==
    IF event_type = "" THEN b.event_history
    ELSE SelectSeq(b.event_history, LAMBDA e : e.event_type = event_type)

\* clear_history
ClearHistory(b) == [b EXCEPT !.event_history = <<>>]

\* a publish without its try/except
SwallowedNothing(exception) == FALSE

\* except Exception: the exception classes the handler of publish catches
Swallowed(exception) == exception \in {"Exception", "ValueError"}

\* the exception a callback raises ("": none)
Raises(callback) == IF callback = "h_raise" THEN "ValueError" ELSE ""

\* a publish call in progress: its event and the number of callbacks its
\* loop has passed
BusFrame(event, i) == [event |-> event, i |-> i]

BusIdle == busStack = <<>>

BusTop == busStack[Len(busStack)]

BusPopped == SubSeq(busStack, 1, Len(busStack) - 1)

\* subscribe, called from outside a delivery
BusSubscribe ==
    \E event_type \in EventTypes :
        \E callback \in CallbacksFor(event_type) :
            /\ BusIdle
            /\ Len(bus.subscribers[event_type]) < MaxSubs
            /\ bus' = Subscribe(bus, event_type, callback)
            /\ UNCHANGED <<busStack, busObs>>
            /\ UNCHANGED otherThanBus

\* unsubscribe, called from outside a delivery
BusUnsubscribe ==
    \E event_type \in EventTypes :
        \E callback \in CallbacksFor(event_type) :
            /\ BusIdle
            /\ bus' = Unsubscribe(bus, event_type, callback)
            /\ UNCHANGED <<busStack, busObs>>
            /\ UNCHANGED otherThanBus

\* clear_history, called from outside a delivery
BusClearHistory ==
    /\ BusIdle
    /\ bus' = ClearHistory(bus)
    /\ busObs' = [busObs EXCEPT !.op = "clear_history"]
    /\ UNCHANGED busStack
    /\ UNCHANGED otherThanBus

\* publish, called from outside a delivery: the event joins the history and
\* the loop over the subscribers starts
BusPublish ==
    \E event_type \in EventTypes :
        /\ BusIdle
        /\ bus.published < MaxPublishes
        /\ bus' = HistoryAppend(bus, event_type)
        /\ busStack' = <<BusFrame(BusEvent(event_type, bus.published), 0)>>
        /\ busObs' = [op |-> "publish",
                      event |-> BusEvent(event_type, bus.published),
                      registered |-> bus.subscribers[event_type],
                      invoked |-> <<>>,
                      raised |-> FALSE]
        /\ UNCHANGED otherThanBus

\* what calling a callback for an event does to the bus and to the publish
\* calls in progress, the loop of the innermost having moved on by one
Invoke(callback, event, b, frames) ==
    IF callback = "h_pub"
    THEN [bus |-> HistoryAppend(b, "b"),
          frames |-> Append(frames, BusFrame(BusEvent("b", b.published), 0))]
    ELSE IF callback = "h_once"
    THEN [bus |-> Unsubscribe(b, event.event_type, callback), frames |-> frames]
    ELSE [bus |-> b, frames |-> frames]

\* publish: the loop calls the next callback; an exception it raises is
\* caught and printed, or else leaves every publish call in progress
BusDeliver ==
    /\ ~BusIdle
    /\ BusTop.i < Len(bus.subscribers[BusTop.event.event_type])
    /\ LET callback == bus.subscribers[BusTop.event.event_type][BusTop.i + 1]
           moved == Append(BusPopped, [BusTop EXCEPT !.i = @ + 1])
           r == Invoke(callback, BusTop.event, bus, moved)
           escapes == Raises(callback) # "" /\ ~Swallowed(Raises(callback))
       IN  /\ bus' = r.bus
           /\ busStack' = IF escapes THEN <<>> ELSE r.frames
           /\ busObs' = [busObs EXCEPT
                            !.invoked = IF BusTop.event = busObs.event
                                        THEN Append(@, callback) ELSE @,
                            !.raised = @ \/ escapes]
    /\ UNCHANGED otherThanBus

\* publish: the loop is over and the call returns
BusReturn ==
    /\ ~BusIdle
    /\ BusTop.i >= Len(bus.subscribers[BusTop.event.event_type])
    /\ busStack' = BusPopped
    /\ UNCHANGED <<bus, busObs>>
    /\ UNCHANGED otherThanBus

\* ------------------------------------------------------------------------
\* Obstacle detection (carport_sdk/features/obstacle_detection.py)
\*
\* Distances are in ten-thousandths of a metre, velocities in ten-thousandths
\* of a m/s, confidences in hundred-thousandths.  random.uniform is a choice
\* among the values listed below.  Quotients are rounded down to the unit.
\* ------------------------------------------------------------------------
\* the most obstacles tracked at once in the runs explored
MaxObstacles == 1

\* the most updates of the module in a run
MaxOdTicks == 2

Mtr(n) == n * 10000

\* confidence given as a number of hundredths
Conf(n) == n * 1000

\* noise = random.uniform(-0.1, 0.1)
Noises == {0 - Conf(10), Conf(10)}

\* bearing = random.uniform(-45, 45) or random.uniform(-30, 30), in degrees
Bearings == {30}

\* velocity = random.uniform(0.5, 3.0)
AnimalVelocities == {5000, 30000}

\* object types given to add_obstacle
ObjectTypes == {"pedestrian", "vehicle"}

\* distances given to the stimuli: 0.2 m, 15 m, 30 m, 60 m, 120 m
Distances == {2000, Mtr(15), Mtr(30), Mtr(60), Mtr(120)}

\* velocities given to add_obstacle: 0 and 1.4 m/s
Velocities == {0, 14000}

\* thresholds given to set_confidence_threshold
ConfidenceThresholds == {Conf(50), Conf(150)}

\* ObstacleDetectionSimulator.__init__
OdInit ==
    [enabled |-> TRUE,
     detection_range |-> Mtr(100),
     confidence_threshold |-> Conf(70),
     obstacles |-> <<>>]

ObstacleData(object_type, distance, bearing, velocity, confidence) ==
    [object_type |-> object_type, distance |-> distance, bearing |-> bearing,
     velocity |-> velocity, confidence |-> confidence]

\* outcome of one call on the module: the module afterwards, the alerts
\* published, the other events published, the confidence computed (-1: none)
OdOutcome(o, alerts, events, confidence) ==
    [od |-> o, alerts |-> alerts, events |-> events, confidence |-> confidence]

\* type_modifiers.get(object_type, 0.7), in percent
TypeModifier(object_type) ==
    CASE object_type = "vehicle" -> 100
      [] object_type = "pedestrian" -> 85
      [] object_type = "animal" -> 75
      [] object_type = "static_object" -> 90
      [] OTHER -> 70

\* base_confidence before the noise is added
BaseConfidence(distance, object_type) ==
    LET base == IF distance > Mtr(50) THEN (Conf(90) * 8) \div 10
                ELSE IF distance > Mtr(100) THEN (Conf(90) * 6) \div 10
                ELSE Conf(90)
    IN  (base * TypeModifier(object_type)) \div 100

\* _calculate_fusion_confidence
CalculateFusionConfidence(distance, object_type, noise) ==
    Max(0, Min(Conf(100), BaseConfidence(distance, object_type) + noise))

\* _trigger_emergency_stop
TriggerEmergencyStop(obstacle) ==
    <<AlertData("emergency_stop", "critical", "Emergency stop triggered")>>

\* _trigger_slow_down
TriggerSlowDown(obstacle, is_night) ==
    <<AlertData("slow_down", "warning",
                IF is_night THEN "Reducing speed (night conditions)"
                ELSE "Reducing speed")>>

\* _trigger_navigation_alert
TriggerNavigationAlert(obstacle) ==
    <<AlertData("navigation_required", "info", "Navigation adjustment needed")>>

\* _trigger_warning
TriggerWarning(obstacle, message) ==
    <<AlertData("obstacle_warning", "warning", message)>>

\* _process_obstacle_detection: the alerts it publishes
ProcessObstacleDetection(obstacle, is_night) ==
    IF obstacle.object_type = "pedestrian"
    THEN IF obstacle.distance < Mtr(20) /\ obstacle.velocity > 0
         THEN TriggerEmergencyStop(obstacle)
         ELSE IF obstacle.distance < Mtr(50)
         THEN TriggerWarning(obstacle, "Pedestrian detected ahead")
         ELSE <<>>
    ELSE IF obstacle.object_type = "animal"
    THEN IF obstacle.distance < Mtr(30)
         THEN TriggerSlowDown(obstacle, is_night)
         ELSE <<>>
    ELSE IF obstacle.object_type = "static_object"
    THEN IF obstacle.distance < Mtr(25)
         THEN TriggerNavigationAlert(obstacle)
         ELSE <<>>
    ELSE <<>>

\* a variant that tracks every candidate, whatever its confidence
AdmitWhateverConfidence(o, obstacle, is_night) ==
    OdOutcome([o EXCEPT !.obstacles = Append(@, obstacle)],
              ProcessObstacleDetection(obstacle, is_night), <<>>,
              obstacle.confidence)

\* the candidate is appended and processed when its confidence reaches the
\* threshold
Admit(o, obstacle, is_night) ==
    IF obstacle.confidence >= o.confidence_threshold
    THEN OdOutcome([o EXCEPT !.obstacles = Append(@, obstacle)],
                   ProcessObstacleDetection(obstacle, is_night), <<>>,
                   obstacle.confidence)
    ELSE OdOutcome(o, <<>>, <<>>, obstacle.confidence)

\* add_obstacle
AddObstacle(o, object_type, distance, bearing, velocity, noise) ==
    Admit(o,
          ObstacleData(object_type, distance, bearing, velocity,
                       CalculateFusionConfidence(distance, object_type, noise)),
          FALSE)

\* simulate_pedestrian
SimulatePedestrian(o, distance, crossing, bearing, noise) ==
    AddObstacle(o, "pedestrian", distance,
                IF crossing THEN 0 ELSE bearing,
                IF crossing THEN 14000 ELSE 0,
                noise)

\* simulate_animal
SimulateAnimal(o, distance, is_night, bearing, velocity, noise) ==
    LET confidence_modifier == IF is_night THEN 80 ELSE 100
    IN  Admit(o,
              ObstacleData("animal", distance, bearing, velocity,
                           (CalculateFusionConfidence(distance, "animal", noise)
                            * confidence_modifier) \div 100),
              is_night)

\* simulate_static_object
SimulateStaticObject(o, distance, noise) ==
    AddObstacle(o, "static_object", distance, 0, 0, noise)

\* _update_obstacle_positions, for one obstacle; speed in ten-thousandths of
\* a km/h
UpdateObstaclePosition(obstacle, speed) ==
    LET relative_velocity == (speed * 10) \div 36 - obstacle.velocity
    IN  [obstacle EXCEPT !.distance = @ + relative_velocity \div 10]

\* _cleanup_old_obstacles
CleanupOldObstacles(o) ==
    [o EXCEPT !.obstacles =
        SelectSeq(@, LAMBDA obs : obs.distance <= o.detection_range /\ obs.distance > 0)]

\* ObstacleDetectionSimulator.update
OdUpdate(o, speed) ==
    IF ~o.enabled
    THEN OdOutcome(o, <<>>, <<>>, 0 - 1)
    ELSE LET moved == [o EXCEPT !.obstacles =
                          [k \in DOMAIN @ |-> UpdateObstaclePosition(@[k], speed)]]
             kept == CleanupOldObstacles(moved)
         IN  OdOutcome(kept, <<>>,
                       IF kept.obstacles # <<>> THEN <<"obstacles_detected">> ELSE <<>>,
                       0 - 1)

\* set_confidence_threshold
SetConfidenceThreshold(o, threshold) ==
    OdOutcome([o EXCEPT !.confidence_threshold = Max(0, Min(Conf(100), threshold))],
              <<>>, <<>>, 0 - 1)

\* enable
OdEnabled(o) == OdOutcome([o EXCEPT !.enabled = TRUE], <<>>, <<>>, 0 - 1)

\* disable
OdDisabled(o) ==
    OdOutcome([o EXCEPT !.enabled = FALSE, !.obstacles = <<>>], <<>>, <<>>, 0 - 1)

\* clear_obstacles
ClearObstacles(o) == OdOutcome([o EXCEPT !.obstacles = <<>>], <<>>, <<>>, 0 - 1)

\* the candidate of the latest stimulus (object_type "": none)
NoCandidate == [object_type |-> "", distance |-> 0, velocity |-> 0, is_night |-> FALSE]

Candidate(object_type, distance, velocity, is_night) ==
    [object_type |-> object_type, distance |-> distance, velocity |-> velocity,
     is_night |-> is_night]

\* what a call did: the operation, its candidate, the confidence it
\* computed, the alerts and events it published
OdObserve(op, cand, r) ==
    [op |-> op, cand |-> cand,
     confidence |-> r.confidence, alerts |-> r.alerts, events |-> r.events]

\* one call on the module by the calling thread; what it publishes is kept
\* in odLast
OdCall(op, cand, r) ==
    /\ fg.pc = "idle"
    /\ od' = r.od
    /\ odLast' = OdObserve(op, cand, r)
    /\ UNCHANGED odTicks
    /\ UNCHANGED otherThanOd

OdAddObstacle ==
    \E object_type \in ObjectTypes, distance \in Distances,
       velocity \in Velocities, noise \in Noises :
        /\ Len(od.obstacles) < MaxObstacles
        /\ OdCall("add_obstacle", Candidate(object_type, distance, velocity, FALSE),
                  AddObstacle(od, object_type, distance, 0, velocity, noise))

OdSimulatePedestrian ==
    \E distance \in Distances, crossing \in BOOLEAN,
       bearing \in Bearings, noise \in Noises :
        /\ Len(od.obstacles) < MaxObstacles
        /\ OdCall("simulate_pedestrian",
                  Candidate("pedestrian", distance, IF crossing THEN 14000 ELSE 0, FALSE),
                  SimulatePedestrian(od, distance, crossing, bearing, noise))

OdSimulateAnimal ==
    \E distance \in Distances, is_night \in BOOLEAN, bearing \in Bearings,
       velocity \in AnimalVelocities, noise \in Noises :
        /\ Len(od.obstacles) < MaxObstacles
        /\ OdCall("simulate_animal", Candidate("animal", distance, velocity, is_night),
                  SimulateAnimal(od, distance, is_night, bearing, velocity, noise))

OdSimulateStaticObject ==
    \E distance \in Distances, noise \in Noises :
        /\ Len(od.obstacles) < MaxObstacles
        /\ OdCall("simulate_static_object", Candidate("static_object", distance, 0, FALSE),
                  SimulateStaticObject(od, distance, noise))

OdSetConfidenceThreshold ==
    \E threshold \in ConfidenceThresholds :
        OdCall("set_confidence_threshold", NoCandidate, SetConfidenceThreshold(od, threshold))

OdEnable == OdCall("enable", NoCandidate, OdEnabled(od))

OdDisable == OdCall("disable", NoCandidate, OdDisabled(od))

OdClearObstacles == OdCall("clear_obstacles", NoCandidate, ClearObstacles(od))

\* one update of the module with the vehicle state, as a tick makes it
OdTick ==
    /\ fg.pc = "idle"
    /\ odTicks < MaxOdTicks
    /\ od' = OdUpdate(od, sim.vehicle_state.speed).od
    /\ odLast' = OdObserve("update", NoCandidate, OdUpdate(od, sim.vehicle_state.speed))
    /\ odTicks' = odTicks + 1
    /\ UNCHANGED otherThanOd

\* ------------------------------------------------------------------------
\* Regulatory mode (carport_sdk/features/regulatory_mode.py)
\*
\* Each method is an operator from the module to the module after the call,
\* the alerts it publishes, in order, and what it returns.  A region is
\* known by its code.
\* ------------------------------------------------------------------------
RegionCodes == {"US", "EU", "JP", "CN"}

\* self._all_features
AllFeatures ==
    {"driver_monitoring", "adaptive_speed_limiting", "ota_updates",
     "obstacle_detection", "autonomous_parking", "highway_autopilot",
     "traffic_light_detection"}

\* feature names given to check_feature_allowed and attempt_feature_activation
FeatureNames == AllFeatures \cup {"teleportation"}

\* positions given to simulate_gps_position: New York, Berlin, Tokyo,
\* Beijing, a point of both the JP and the CN box, Sydney, a corner of the
\* US box
GpsPositions ==
    {[lat |-> 407128, lon |-> 0 - 740060],
     [lat |-> 525200, lon |-> 134049],
     [lat |-> 356762, lon |-> 1396503],
     [lat |-> 399042, lon |-> 1164074],
     [lat |-> Deg(35), lon |-> Deg(130)],
     [lat |-> 0 - 338688, lon |-> 1512093],
     [lat |-> Deg(49), lon |-> Deg(0 - 66)]}

\* VehicleState.position as update finds it: a position, or no GPS fix
TickPositions == GpsPositions \cup {[lat |-> 0, lon |-> 0]}

\* region codes given to simulate_border_crossing
CrossingCodes == RegionCodes \cup {"XX"}

\* RegulatoryModeSimulator.__init__
RmInit == [enabled |-> TRUE, current_region |-> "US"]

\* RegulatoryRegion.allowed_features
AllowedFeatures(region) ==
    CASE region = "US" -> {"driver_monitoring", "adaptive_speed_limiting",
                           "ota_updates", "obstacle_detection"}
      [] region = "EU" -> {"driver_monitoring", "adaptive_speed_limiting",
                           "ota_updates", "obstacle_detection", "highway_autopilot"}
      [] region = "JP" -> {"driver_monitoring", "adaptive_speed_limiting",
                           "obstacle_detection", "traffic_light_detection"}
      [] OTHER -> {"driver_monitoring", "obstacle_detection"}

\* a lookup that tries the CN box before the JP box
DetermineRegionChinaFirst(lat, lon) ==
    IF Deg(25) <= lat /\ lat <= Deg(49) /\ Deg(0 - 125) <= lon /\ lon <= Deg(0 - 66)
    THEN "US"
    ELSE IF Deg(35) <= lat /\ lat <= Deg(71) /\ Deg(0 - 10) <= lon /\ lon <= Deg(40)
    THEN "EU"
    ELSE IF Deg(18) <= lat /\ lat <= Deg(54) /\ Deg(73) <= lon /\ lon <= Deg(135)
    THEN "CN"
    ELSE IF Deg(30) <= lat /\ lat <= Deg(46) /\ Deg(129) <= lon /\ lon <= Deg(146)
    THEN "JP"
    ELSE "US"

\* _determine_region_from_coordinates
DetermineRegionFromCoordinates(lat, lon) ==
    IF Deg(25) <= lat /\ lat <= Deg(49) /\ Deg(0 - 125) <= lon /\ lon <= Deg(0 - 66)
    THEN "US"
    ELSE IF Deg(35) <= lat /\ lat <= Deg(71) /\ Deg(0 - 10) <= lon /\ lon <= Deg(40)
    THEN "EU"
    ELSE IF Deg(30) <= lat /\ lat <= Deg(46) /\ Deg(129) <= lon /\ lon <= Deg(146)
    THEN "JP"
    ELSE IF Deg(18) <= lat /\ lat <= Deg(54) /\ Deg(73) <= lon /\ lon <= Deg(135)
    THEN "CN"
    ELSE "US"

\* AlertData as the module's notifications fill it: the features and the
\* regions the message names
RmAlert(alert_type, severity, features, regions) ==
    [alert_type |-> alert_type, severity |-> severity,
     features |-> features, regions |-> regions]

RmOutcome(r, alerts, result) == [rm |-> r, alerts |-> alerts, result |-> result]

\* _notify_region_change
NotifyRegionChange(old_region, new_region) ==
    RmAlert("region_change", "info", {}, <<old_region, new_region>>)

\* _notify_feature_blocked
NotifyFeatureBlocked(r, feature_name) ==
    RmAlert("feature_blocked", "warning", {feature_name}, <<r.current_region>>)

\* _notify_feature_activation
NotifyFeatureActivation(feature_name, success) ==
    RmAlert("feature_activation", "info", {feature_name}, <<>>)

\* _notify_features_disabled
NotifyFeaturesDisabled(r, features) ==
    RmAlert("features_disabled", "warning", features, <<r.current_region>>)

\* _notify_features_enabled
NotifyFeaturesEnabled(r, features) ==
    RmAlert("features_enabled", "info", features, <<r.current_region>>)

\* a _handle_region_change that tells the two feature lists apart wrongly
RmHandleRegionChangeSwapped(r, old_region, new_region) ==
    LET newly_blocked == AllowedFeatures(new_region) \ AllowedFeatures(old_region)
        newly_allowed == AllowedFeatures(old_region) \ AllowedFeatures(new_region)
    IN  <<NotifyRegionChange(old_region, new_region)>>
        \o (IF newly_blocked # {}
            THEN <<NotifyFeaturesDisabled(r, newly_blocked)>> ELSE <<>>)
        \o (IF newly_allowed # {}
            THEN <<NotifyFeaturesEnabled(r, newly_allowed)>> ELSE <<>>)

\* RegulatoryModeSimulator._handle_region_change: the alerts it publishes,
\* r being the module with the new region adopted
RmHandleRegionChange(r, old_region, new_region) ==
    LET newly_blocked == AllowedFeatures(old_region) \ AllowedFeatures(new_region)
        newly_allowed == AllowedFeatures(new_region) \ AllowedFeatures(old_region)
    IN  <<NotifyRegionChange(old_region, new_region)>>
        \o (IF newly_blocked # {}
            THEN <<NotifyFeaturesDisabled(r, newly_blocked)>> ELSE <<>>)
        \o (IF newly_allowed # {}
            THEN <<NotifyFeaturesEnabled(r, newly_allowed)>> ELSE <<>>)

\* simulate_gps_position
SimulateGpsPosition(r, latitude, longitude) ==
    IF ~r.enabled
    THEN RmOutcome(r, <<>>, "none")
    ELSE LET new_region == DetermineRegionFromCoordinates(latitude, longitude)
             old_region == r.current_region
             r1 == [r EXCEPT !.current_region = new_region]
         IN  IF new_region # old_region
             THEN RmOutcome(r1, RmHandleRegionChange(r1, old_region, new_region),
                            "none")
             ELSE RmOutcome(r, <<>>, "none")

\* simulate_border_crossing
SimulateBorderCrossing(r, from_region, to_region) ==
    IF from_region \in RegionCodes /\ to_region \in RegionCodes
    THEN LET r1 == [r EXCEPT !.current_region = to_region]
         IN  RmOutcome(r1, RmHandleRegionChange(r1, from_region, to_region), "none")
    ELSE RmOutcome(r, <<>>, "none")

\* a check_feature_allowed that lets every feature through
CheckFeatureAllowedAlways(r, feature_name) == TRUE

\* check_feature_allowed
CheckFeatureAllowed(r, feature_name) ==
    IF ~r.enabled THEN TRUE
    ELSE feature_name \in AllowedFeatures(r.current_region)

\* attempt_feature_activation
AttemptFeatureActivation(r, feature_name) ==
    IF ~r.enabled
    THEN RmOutcome(r, <<>>, "True")
    ELSE IF CheckFeatureAllowed(r, feature_name)
    THEN RmOutcome(r, <<NotifyFeatureActivation(feature_name, TRUE)>>, "True")
    ELSE RmOutcome(r, <<NotifyFeatureBlocked(r, feature_name)>>, "False")

\* RegulatoryModeSimulator.update
RmUpdate(r, position) ==
    IF ~r.enabled
    THEN RmOutcome(r, <<>>, "none")
    ELSE IF position.lat # 0 \/ position.lon # 0
    THEN SimulateGpsPosition(r, position.lat, position.lon)
    ELSE RmOutcome(r, <<>>, "none")

\* enable
RmEnabled(r) == RmOutcome([r EXCEPT !.enabled = TRUE], <<>>, "none")

\* disable
RmDisabled(r) == RmOutcome([r EXCEPT !.enabled = FALSE], <<>>, "none")

NoPosition == [lat |-> 0, lon |-> 0]

\* what a call is seen to do: its arguments, the region before it, the
\* alerts it published and what it returned
RmObserve(op, position, feature_name, codes, r) ==
    [op |-> op, position |-> position, feature_name |-> feature_name,
     codes |-> codes, before |-> rm.current_region,
     alerts |-> r.alerts, result |-> r.result]

\* one call on the module
RmCall(op, position, feature_name, codes, r) ==
    /\ rm' = r.rm
    /\ rmLast' = RmObserve(op, position, feature_name, codes, r)
    /\ UNCHANGED otherThanRm

RmSimulateGpsPosition ==
    \E position \in GpsPositions :
        RmCall("simulate_gps_position", position, "", <<>>,
               SimulateGpsPosition(rm, position.lat, position.lon))

RmSimulateBorderCrossing ==
    \E from_region \in CrossingCodes :
        \E to_region \in CrossingCodes :
            RmCall("simulate_border_crossing", NoPosition, "",
                   <<from_region, to_region>>,
                   SimulateBorderCrossing(rm, from_region, to_region))

RmCheckFeatureAllowed ==
    \E feature_name \in FeatureNames :
        RmCall("check_feature_allowed", NoPosition, feature_name, <<>>,
               RmOutcome(rm, <<>>,
                         IF CheckFeatureAllowed(rm, feature_name)
                         THEN "True" ELSE "False"))

RmAttemptFeatureActivation ==
    \E feature_name \in FeatureNames :
        RmCall("attempt_feature_activation", NoPosition, feature_name, <<>>,
               AttemptFeatureActivation(rm, feature_name))

\* update, called with the vehicle state of the tick
RmTick ==
    \E position \in TickPositions :
        RmCall("update", position, "", <<>>, RmUpdate(rm, position))

RmEnable == RmCall("enable", NoPosition, "", <<>>, RmEnabled(rm))

RmDisable == RmCall("disable", NoPosition, "", <<>>, RmDisabled(rm))

\* ------------------------------------------------------------------------
\* CarPortSimulator (carport_sdk/core/simulator.py): the simulation thread
\* and a calling thread
\*
\* The simulator takes no lock anywhere.  The statements of
\* SpeedLimitingSimulator.update, RegulatoryModeSimulator.update and
\* set_vehicle_speed that read or write the vehicle state are steps of
\* their own, so the two threads interleave between them as the interpreter
\* allows.  The event bus's history and the simulator's alert list are kept
\* as the sets of the event types and alert types they hold.  No obstacle
\* is injected, no update session is requested and the driver looks forward
\* in the runs explored here.  Speeds are in ten-thousandths of a km/h,
\* delta_time in milliseconds.
\* ------------------------------------------------------------------------
\* speeds given to set_vehicle_speed (km/h)
SetSpeeds == {0 - 10, 0, 80}

\* positions given to set_vehicle_position: New York, Berlin, Tokyo
SimPositions ==
    {[lat |-> 407128, lon |-> 0 - 740060],
     [lat |-> 525200, lon |-> 134049],
     [lat |-> 356762, lon |-> 1396503]}

\* time between two calls of SpeedLimitingSimulator.update (ms)
SimDeltas == {1000, 5000}

speed_change_rate == 10

\* CarPortSimulator.__init__ with VehicleState(), SpeedLimitingSimulator.__init__
\* and RegulatoryModeSimulator.__init__
SimInit ==
    [running |-> FALSE,
     stop_event |-> FALSE,
     vehicle_state |-> [speed |-> 0, is_stationary |-> TRUE,
                        position |-> [lat |-> 0, lon |-> 0]],
     speed_limiting |-> [enabled |-> TRUE, target_speed |-> Kmh(50)],
     regulatory_mode |-> [enabled |-> TRUE, current_region |-> "US"],
     event_history |-> {},
     alerts |-> {}]

\* the simulation thread: where it stands, its local variables, and the
\* modules whose update the tick in progress has called, in order
BgInit ==
    [pc |-> "none", speed_change |-> 0, new_speed |-> 0, lat |-> 0,
     updated |-> <<>>]

\* a tick that updates obstacle detection before the OTA module
AfterStepSwapped(step) ==
    CASE step = "publish_state" -> "driver_monitoring"
      [] step = "driver_monitoring" -> "speed_limiting"
      [] step = "speed_limiting" -> "obstacle_detection"
      [] step = "obstacle_detection" -> "ota_updates"
      [] step = "ota_updates" -> "regulatory_mode"
      [] OTHER -> "sleep"

\* _update_simulation: the statement that follows a step of the tick
AfterStep(step) ==
    CASE step = "publish_state" -> "driver_monitoring"
      [] step = "driver_monitoring" -> "speed_limiting"
      [] step = "speed_limiting" -> "ota_updates"
      [] step = "ota_updates" -> "obstacle_detection"
      [] step = "obstacle_detection" -> "regulatory_mode"
      [] OTHER -> "sleep"

\* the thread as it enters the update of a module
Entered(b, module) == [b EXCEPT !.updated = Append(@, module)]

\* the calling thread: where it stands and the argument  speed
FgInit == [pc |-> "idle", speed |-> 0]

\* EventBus.publish
Publish(s, event_type) == [s EXCEPT !.event_history = @ \cup {event_type}]

\* EventBus.publish of an alert event, which _handle_alert appends to _alerts
PublishAlert(s, alert_type) ==
    [Publish(s, "alert") EXCEPT !.alerts = @ \cup {alert_type}]

\* EventBus.publish of each alert of a module, in their order
RECURSIVE PublishAlerts(_, _)
PublishAlerts(s, alerts) ==
    IF alerts = <<>> THEN s
    ELSE PublishAlerts(PublishAlert(s, Head(alerts).alert_type), Tail(alerts))

\* simulate_gps_position on the simulator's regulatory mode module
SimGpsPosition(s, latitude, longitude) ==
    LET r == SimulateGpsPosition(s.regulatory_mode, latitude, longitude)
    IN  PublishAlerts([s EXCEPT !.regulatory_mode = r.rm], r.alerts)

\* a step of the calling thread that touches the simulator only
FgStep(s, f) ==
    /\ sim' = s
    /\ fg' = f
    /\ UNCHANGED bg
    /\ UNCHANGED otherThanSim

\* a step of the simulation thread that touches the simulator only
BgStep(s, b) ==
    /\ sim' = s
    /\ bg' = b
    /\ UNCHANGED fg
    /\ UNCHANGED otherThanSim

\* CarPortSimulator.start up to the thread's start; a start while the thread
\* of an earlier start is still alive is not explored
FgStart ==
    /\ fg.pc = "idle"
    /\ sim.running \/ bg.pc \in {"none", "ended"}
    /\ IF sim.running
       THEN UNCHANGED <<sim, bg, fg>>
       ELSE /\ sim' = [sim EXCEPT !.running = TRUE, !.stop_event = FALSE]
            /\ bg' = [BgInit EXCEPT !.pc = "loop"]
            /\ fg' = [fg EXCEPT !.pc = "start_publish"]
    /\ UNCHANGED otherThanSim

\* CarPortSimulator.start: the simulation_started event
FgStartPublish ==
    /\ fg.pc = "start_publish"
    /\ FgStep(Publish(sim, "simulation_started"), [fg EXCEPT !.pc = "idle"])

\* CarPortSimulator.stop up to the join
FgStop ==
    /\ fg.pc = "idle"
    /\ IF ~sim.running
       THEN FgStep(sim, fg)
       ELSE FgStep([sim EXCEPT !.running = FALSE, !.stop_event = TRUE],
                   [fg EXCEPT !.pc = "stop_join"])

\* CarPortSimulator.stop: join(timeout=1.0) returns when the thread has ended
\* or when the second has passed
FgStopJoin ==
    /\ fg.pc = "stop_join"
    /\ FgStep(sim, [fg EXCEPT !.pc = "stop_publish"])

\* CarPortSimulator.stop: the simulation_stopped event
FgStopPublish ==
    /\ fg.pc = "stop_publish"
    /\ FgStep(Publish(sim, "simulation_stopped"), [fg EXCEPT !.pc = "idle"])

\* set_vehicle_position
FgSetVehiclePosition ==
    \E position \in SimPositions :
        /\ fg.pc = "idle"
        /\ FgStep([sim EXCEPT !.vehicle_state.position = position], fg)

\* set_vehicle_speed: self.vehicle_state.speed = speed
FgSetVehicleSpeed ==
    \E speed \in SetSpeeds :
        /\ fg.pc = "idle"
        /\ FgStep([sim EXCEPT !.vehicle_state.speed = Kmh(speed)],
                  [pc |-> "set_vehicle_speed_stationary", speed |-> Kmh(speed)])

\* set_vehicle_speed: self.vehicle_state.is_stationary = speed < 1.0
FgSetVehicleSpeedStationary ==
    /\ fg.pc = "set_vehicle_speed_stationary"
    /\ FgStep([sim EXCEPT !.vehicle_state.is_stationary = fg.speed < Kmh(1)],
              [fg EXCEPT !.pc = "idle"])

\* _simulation_loop: the loop's condition
BgLoop ==
    /\ bg.pc = "loop"
    /\ BgStep(sim, [bg EXCEPT !.pc = IF sim.running /\ ~sim.stop_event
                                     THEN "publish_state" ELSE "ended"])

\* _update_simulation: the vehicle_state_update event
BgPublishVehicleState ==
    /\ bg.pc = "publish_state"
    /\ BgStep(Publish(sim, "vehicle_state_update"),
              [bg EXCEPT !.pc = AfterStep("publish_state"), !.updated = <<>>])

\* _update_simulation: self.driver_monitoring.update
BgDriverMonitoring ==
    \E delta \in Deltas :
        /\ bg.pc = "driver_monitoring"
        /\ dm.time_looking_away + delta <= MaxAway
        /\ dm' = DmUpdate(dm, delta).d
        /\ dmLast' = DmObserve("update", NumArg(delta), DmUpdate(dm, delta))
        /\ bg' = [Entered(bg, "driver_monitoring") EXCEPT
                      !.pc = AfterStep("driver_monitoring")]
        /\ UNCHANGED <<sim, fg, otaVars, envVars, odVars, busVars, rmVars, clockVars, alertVars, raceVars>>

\* SpeedLimitingSimulator.update up to  if abs(speed_change) > 0.1: the
\* vehicle's speed is read for speed_diff
BgSpeedLimiting ==
    \E delta_time \in SimDeltas :
        /\ bg.pc = "speed_limiting"
        /\ IF ~sim.speed_limiting.enabled
           THEN BgStep(sim, [Entered(bg, "speed_limiting") EXCEPT
                                 !.pc = AfterStep("speed_limiting")])
           ELSE LET speed_diff == sim.speed_limiting.target_speed - sim.vehicle_state.speed
                    max_change == (Kmh(speed_change_rate) * delta_time) \div 1000
                    speed_change == IF Abs(speed_diff) > max_change
                                    THEN IF speed_diff > 0 THEN max_change ELSE 0 - max_change
                                    ELSE speed_diff
                IN  IF Abs(speed_change) > Kmh(1) \div 10
                    THEN BgStep(sim, [Entered(bg, "speed_limiting") EXCEPT
                                          !.pc = "sl_new_speed",
                                          !.speed_change = speed_change])
                    ELSE BgStep(sim, [Entered(bg, "speed_limiting") EXCEPT
                                          !.pc = AfterStep("speed_limiting")])

\* SpeedLimitingSimulator.update: new_speed = vehicle_state.speed + speed_change
BgSlNewSpeed ==
    /\ bg.pc = "sl_new_speed"
    /\ BgStep(sim, [bg EXCEPT !.pc = "sl_write_speed",
                              !.new_speed = sim.vehicle_state.speed + bg.speed_change])

\* SpeedLimitingSimulator.update: vehicle_state.speed = max(0.0, new_speed)
BgSlWriteSpeed ==
    /\ bg.pc = "sl_write_speed"
    /\ BgStep([sim EXCEPT !.vehicle_state.speed = Max(0, bg.new_speed)],
              [bg EXCEPT !.pc = "sl_write_stationary"])

\* SpeedLimitingSimulator.update: vehicle_state.is_stationary = vehicle_state.speed < 1.0
BgSlWriteStationary ==
    /\ bg.pc = "sl_write_stationary"
    /\ BgStep([sim EXCEPT !.vehicle_state.is_stationary = sim.vehicle_state.speed < Kmh(1)],
              [bg EXCEPT !.pc = "sl_publish"])

\* SpeedLimitingSimulator.update: the speed_adjusted event
BgSlPublish ==
    /\ bg.pc = "sl_publish"
    /\ BgStep(Publish(sim, "speed_adjusted"),
              [bg EXCEPT !.pc = AfterStep("speed_limiting"),
                         !.speed_change = 0, !.new_speed = 0])

\* _update_simulation: self.ota_updates.update
BgOtaUpdates ==
    /\ bg.pc = "ota_updates"
    /\ ota' = Update(ota, now, now).o
    /\ last' = Observe("update", NoArgs, Update(ota, now, now))
    /\ hist' = HistAfter("update", NoArgs, Update(ota, now, now), now)
    /\ bg' = [Entered(bg, "ota_updates") EXCEPT !.pc = AfterStep("ota_updates")]
    /\ UNCHANGED <<now, sim, fg, dmVars, envVars, odVars, busVars, rmVars, clockVars, alertVars, raceVars>>

\* _update_simulation: self.obstacle_detection.update
BgObstacleDetection ==
    /\ bg.pc = "obstacle_detection"
    /\ od' = OdUpdate(od, sim.vehicle_state.speed).od
    /\ sim' = IF OdUpdate(od, sim.vehicle_state.speed).events # <<>>
              THEN Publish(sim, "obstacles_detected") ELSE sim
    /\ bg' = [Entered(bg, "obstacle_detection") EXCEPT
                  !.pc = AfterStep("obstacle_detection")]
    /\ UNCHANGED <<fg, odLast, odTicks, otaVars, dmVars, envVars, busVars, rmVars, clockVars, alertVars, raceVars>>

\* RegulatoryModeSimulator.update: lat = vehicle_state.position.get("lat", 0.0)
BgRegulatoryMode ==
    /\ bg.pc = "regulatory_mode"
    /\ IF ~sim.regulatory_mode.enabled
       THEN BgStep(sim, [Entered(bg, "regulatory_mode") EXCEPT
                             !.pc = AfterStep("regulatory_mode")])
       ELSE BgStep(sim, [Entered(bg, "regulatory_mode") EXCEPT
                             !.pc = "rm_lon",
                             !.lat = sim.vehicle_state.position.lat])

\* RegulatoryModeSimulator.update: lon = vehicle_state.position.get("lon", 0.0),
\* then simulate_gps_position unless both are zero
BgRmLon ==
    /\ bg.pc = "rm_lon"
    /\ LET lon == sim.vehicle_state.position.lon
       IN  BgStep(IF bg.lat # 0 \/ lon # 0
                  THEN SimGpsPosition(sim, bg.lat, lon)
                  ELSE sim,
                  [bg EXCEPT !.pc = AfterStep("regulatory_mode"), !.lat = 0])

\* _simulation_loop: time.sleep(0.1)
BgSleep ==
    /\ bg.pc = "sleep"
    /\ BgStep(sim, [bg EXCEPT !.pc = "loop"])

\* ------------------------------------------------------------------------
\* Alert sink (carport_sdk/core/simulator.py, carport_sdk/core/events.py)
\*
\* Alert events are published by the feature modules from the simulation
\* thread (their update, once per tick) and from the calling thread (their
\* stimuli), and by any other user of the bus.  publish appends the event to
\* the history and then calls _handle_alert, the first subscriber of
\* "alert"; the two statements are two steps of the publishing thread.
\* ------------------------------------------------------------------------
\* the most alert events published
MaxAlerts == 3

Threads == {"simulation", "calling"}

\* an alert event: its number in publish order and whether its data is an
\* AlertData record
AlertEvent(n, is_alert_data) == [n |-> n, is_alert_data |-> is_alert_data]

\* a thread outside every call
ThreadIdle == [pc |-> "idle", event |-> AlertEvent(0, FALSE), clear |-> FALSE]

\* CarPortSimulator.__init__: self._alerts, and the bus's history
AlInit ==
    [event_history |-> <<>>,
     alerts |-> <<>>,
     thread |-> [t \in Threads |-> ThreadIdle]]

\* _handle_alert
HandleAlert(alerts, event) ==
    IF event.is_alert_data THEN Append(alerts, event) ELSE alerts

\* EventBus.publish, first statement: the event joins the history
AlertPublish ==
    \E t \in Threads, is_alert_data \in BOOLEAN :
        LET event == AlertEvent(Len(al.event_history) + 1, is_alert_data)
        IN  /\ al.thread[t].pc = "idle"
            /\ Len(al.event_history) < MaxAlerts
            /\ al' = [al EXCEPT !.event_history = Append(@, event),
                                !.thread[t] = [@ EXCEPT !.pc = "publish",
                                                        !.event = event]]
            /\ UNCHANGED alRet
            /\ UNCHANGED otherThanAlert

\* EventBus.publish, the loop over the subscribers: _handle_alert is called
AlertDeliver ==
    \E t \in Threads :
        /\ al.thread[t].pc = "publish"
        /\ al' = [al EXCEPT !.alerts = HandleAlert(@, al.thread[t].event),
                            !.thread[t] = ThreadIdle]
        /\ UNCHANGED alRet
        /\ UNCHANGED otherThanAlert

\* the calling thread enters get_alerts(clear)
GetAlertsCall ==
    \E clear \in BOOLEAN :
        /\ al.thread["calling"].pc = "idle"
        /\ al' = [al EXCEPT !.thread["calling"] =
                                [@ EXCEPT !.pc = "get_alerts", !.clear = clear]]
        /\ UNCHANGED alRet
        /\ UNCHANGED otherThanAlert

\* get_alerts: alerts = self._alerts.copy(), which is what it returns
GetAlertsCopy ==
    /\ al.thread["calling"].pc = "get_alerts"
    /\ alRet' = al.alerts
    /\ al' = [al EXCEPT !.thread["calling"] =
                            IF @.clear THEN [@ EXCEPT !.pc = "get_alerts_clear"]
                            ELSE ThreadIdle]
    /\ UNCHANGED otherThanAlert

\* get_alerts: if clear: self._alerts.clear()
GetAlertsClear ==
    /\ al.thread["calling"].pc = "get_alerts_clear"
    /\ al' = [al EXCEPT !.alerts = <<>>, !.thread["calling"] = ThreadIdle]
    /\ UNCHANGED alRet
    /\ UNCHANGED otherThanAlert

\* the calling thread enters clear_alerts
ClearAlertsCall ==
    /\ al.thread["calling"].pc = "idle"
    /\ al' = [al EXCEPT !.thread["calling"] = [@ EXCEPT !.pc = "clear_alerts"]]
    /\ UNCHANGED alRet
    /\ UNCHANGED otherThanAlert

\* clear_alerts
ClearAlerts ==
    /\ al.thread["calling"].pc = "clear_alerts"
    /\ al' = [al EXCEPT !.alerts = <<>>, !.thread["calling"] = ThreadIdle]
    /\ UNCHANGED alRet
    /\ UNCHANGED otherThanAlert

\* ------------------------------------------------------------------------
\* OTA properties
\* ------------------------------------------------------------------------
\* the transitions of the strict phase sequence
OtaEdges ==
    {<<"idle", "downloading">>, <<"downloading", "validating">>,
     <<"validating", "installing">>, <<"installing", "success">>,
     <<"success", "idle">>, <<"downloading", "rolled_back">>,
     <<"validating", "rolled_back">>, <<"installing", "rolled_back">>,
     <<"rolled_back", "idle">>}

RolledBack == \E i \in DOMAIN last.trace : last.trace[i] = "rolled_back"

\* C1: every value written to status by a call follows the previous one
\* along idle -> downloading -> validating -> installing -> success -> idle
\* or active phase -> rolled_back -> idle; no other status value is reached.
C1_StrictSequencing ==
    LET path == <<last.from>> \o last.trace
    IN  \A i \in 1..(Len(path) - 1) : <<path[i], path[i + 1]>> \in OtaEdges

\* C2: start_update from idle with a signature the validator rejects returns
\* failure, publishes one critical alert, writes nothing to status and
\* leaves it idle.
C2_InvalidSignatureKeepsIdle ==
    (/\ last.op = "start_update"
     /\ last.from = "idle"
     /\ ~ValidateSignature(last.args.version, last.args.signature))
    => (/\ last.ret = "False"
        /\ Len(last.alerts) = 1
        /\ last.alerts[1].severity = "critical"
        /\ last.trace = <<>>
        /\ ota.status = "idle")

\* C3: after any call that rolled back, current_version is the version the
\* module had when the session was accepted.
C3_RollbackPreservesVersion ==
    RolledBack => ota.current_version = hist.pre_version

\* a second session, started from version 2.0.0, rolled back by the
\* simulated validation failure
C3_Witness ==
    /\ RolledBack
    /\ last.op = "update"
    /\ last.from = "validating"
    /\ ota.current_version = "2.0.0"
    /\ ota.backup_version = "1.0.0"

\* the step rolled back and published exactly one rollback alert with reason
RollsBackWith(reason) ==
    /\ last'.trace = <<"rolled_back", "idle">>
    /\ ota'.status = "idle"
    /\ ota'.current_version = ota.current_version
    /\ last'.alerts = <<AlertData("ota_rollback", "warning",
                                  <<"Update rolled back", reason>>)>>

\* the step changed nothing and published nothing
NoEffect ==
    /\ ota' = ota
    /\ last'.alerts = <<>>
    /\ last'.trace = <<>>

\* C9 as stated: either failure signal rolls back from downloading or
\* installing, and has no effect in any other status.
C9_FailureSignalAsStated ==
    [][/\ last'.op = "simulate_network_failure"
          => IF ota.status \in {"downloading", "installing"}
             THEN RollsBackWith("Network failure during update")
             ELSE NoEffect
       /\ last'.op = "simulate_power_failure"
          => IF ota.status \in {"downloading", "installing"}
             THEN RollsBackWith("Power failure during installation")
             ELSE NoEffect]_vars

\* C9 (amended): a network-failure signal rolls back from downloading or
\* installing, a power-failure signal rolls back from installing only; each
\* rollback goes rolled_back -> idle with one rollback alert carrying the
\* reason; in every other status the signal changes and publishes nothing.
C9_FailureSignal ==
    [][/\ last'.op = "simulate_network_failure"
          => IF ota.status \in {"downloading", "installing"}
             THEN RollsBackWith("Network failure during update")
             ELSE NoEffect
       /\ last'.op = "simulate_power_failure"
          => IF ota.status = "installing"
             THEN RollsBackWith("Power failure during installation")
             ELSE NoEffect]_vars

\* a power-failure signal has rolled an installation back
C9_Witness ==
    /\ last.op = "simulate_power_failure"
    /\ last.from = "installing"
    /\ last.trace = <<"rolled_back", "idle">>
    /\ ota.status = "idle"

\* C10: start_update while the status is not idle returns failure and leaves
\* the whole object (status, progress, versions, failure flag, timers) as
\* it was.
C10_StartUpdateBusyNoOp ==
    [][(last'.op = "start_update" /\ ota.status # "idle")
       => (ota' = ota /\ last'.ret = "False")]_vars

\* a start_update with a valid signature was refused during installation
C10_Witness ==
    /\ last.op = "start_update"
    /\ last.from = "installing"
    /\ ValidateSignature(last.args.version, last.args.signature)
    /\ ota.enabled
    /\ last.ret = "False"
    /\ ota.status = "installing"

\* the phases of a session that have a progress
Phases == {"downloading", "validating", "installing"}

\* C28: in every update session, a second or later one on the same module
\* included, each phase starts with progress 0, progress never decreases
\* within a phase, and the update() that ends the installing phase comes no
\* sooner than the installation time after the status became installing in
\* that session.
C28_PhaseTimedFromEntry ==
    [][/\ (ota'.status # ota.status /\ ota'.status \in Phases)
          => ota'.progress = 0
       /\ (ota'.status = ota.status /\ ota.status \in Phases)
          => ota'.progress >= ota.progress
       /\ (ota.status = "installing" /\ ota'.status # "installing"
              /\ last'.op = "update")
          => now' - hist.entered >= Sec(install_time)]_vars

\* a session has been accepted and is in flight
SessionInFlight == ota.status \in Phases

\* C31: every accepted session terminates: with ticks arriving and the
\* module enabled, a session in flight leads to the status idle, from which
\* a valid start_update is accepted again.
C31_SessionTerminates == SessionInFlight ~> (ota.status = "idle")

\* both threads are outside the module and no session is in flight
SessionOver ==
    /\ \A t \in DOMAIN rc.pc : rc.pc[t] = "idle"
    /\ ota.status = "idle"

\* C32: a session ends either in success (version changed, no rollback
\* alert) or in rollback (version unchanged, one rollback alert), also
\* when a failure signal races with the tick that finishes installation.
\* Stated here in its weaker half: a session whose version was changed has
\* published no rollback alert.
C32_SuccessOrRollback ==
    SessionOver /\ rc.completed => rc.rollbacks = 0

\* C29: start_update is accepted only when the signature given is exactly
\* the signature registered for the version given.
C29_ExactSignatureOnly ==
    (last.op = "start_update" /\ last.ret = "True")
        => (/\ last.args.version \in DOMAIN valid_signatures
            /\ last.args.signature = valid_signatures[last.args.version])

\* C30: when a session completes successfully, current_version becomes the
\* version given to the accepted start_update and backup_version the
\* previous current_version.
C30_CompletedVersion ==
    [][(last'.op = "update" /\ last'.trace = <<"success", "idle">>)
          => (/\ ota'.current_version = hist.version
              /\ ota'.backup_version = ota.current_version)]_vars

\* ------------------------------------------------------------------------
\* Driver monitoring properties
\* ------------------------------------------------------------------------
\* the level the transition rule computes for a time looking away
TargetLevel(t, threshold) ==
    IF t >= 3 * threshold THEN 3
    ELSE IF t >= 2 * threshold THEN 2
    ELSE IF t >= threshold THEN 1
    ELSE 0

\* the latest call was an evaluation: simulate_gaze_away or a tick
Evaluated == dmLast.op \in {"simulate_gaze_away", "update"}

\* the level is the maximum of the previous and the target level, and one
\* driver-attention alert was published exactly if the level rose
EscalatedOnce ==
    /\ dm.alert_level =
           Max(dmLast.level_before,
               TargetLevel(dm.time_looking_away, dm.alert_threshold))
    /\ Len(dmLast.alerts) = IF dm.alert_level > dmLast.level_before THEN 1 ELSE 0
    /\ \A i \in DOMAIN dmLast.alerts : dmLast.alerts[i].alert_type = "driver_attention"

\* C4 as stated: after every simulate_gaze_away call and every tick the
\* level is max(previous level, target level) and an alert is published
\* exactly when the level rises.
C4_EscalationAsStated == Evaluated => EscalatedOnce

\* C4 (amended): the same, for evaluations made while the module is enabled.
C4_Escalation == (Evaluated /\ dm.enabled) => EscalatedOnce

\* a tick raised the level from visual straight to haptic with one alert
C4_Witness ==
    /\ dmLast.op = "update"
    /\ dm.enabled
    /\ dmLast.level_before = 1
    /\ dm.alert_level = 3
    /\ Len(dmLast.alerts) = 1

\* C5: after simulate_gaze_direction("forward") the module's
\* time_looking_away and alert level are both 0.
C5_ForwardGazeResets ==
    (dmLast.op = "simulate_gaze_direction" /\ dmLast.arg.str = "forward")
    => (dm.time_looking_away = 0 /\ dm.alert_level = 0)

\* a forward gaze found the haptic level and accumulated time, and reset both
C5_Witness ==
    /\ dmLast.op = "simulate_gaze_direction"
    /\ dmLast.arg.str = "forward"
    /\ dmLast.level_before = 3
    /\ dm.driver_state.time_looking_away >= 15
    /\ dm.time_looking_away = 0
    /\ dm.alert_level = 0

\* C25: over every operation of the driver-monitoring module the alert level
\* decreases only as the effect of a forward-gaze stimulus: a step that
\* lowers the level is a simulate_gaze_direction("forward").
C25_LevelLoweredOnlyByForwardGaze ==
    [][dm'.alert_level < dm.alert_level
          => (/\ dmLast'.op = "simulate_gaze_direction"
              /\ dmLast'.arg.str = "forward")]_vars

\* C26: in every reachable state the DriverState record's time_looking_away
\* equals the module's own time_looking_away counter, the one get_status
\* reports.
C26_RecordMatchesCounter ==
    dm.driver_state.time_looking_away = dm.time_looking_away

\* ------------------------------------------------------------------------
\* Environment and car properties
\* ------------------------------------------------------------------------
\* the function whose body called the publish_event at the top of the stack
Publisher == IF Len(stack) >= 2 THEN stack[Len(stack) - 1].fn ELSE ""

\* C7: SimulationEnvironment.start() and stop() never block forever on the
\* environment's own lock: the publish_event they call never waits for the
\* lock while the calling thread holds it, and once start has delivered
\* simulation_started (stop: simulation_stopped) to the subscribers the
\* environment is running (stop: not running).
C7_StartStopReturn ==
    /\ ~(BlockedOnOwnLock /\ Publisher \in {"start", "stop"})
    /\ (Idle /\ env.running) => "simulation_started" \in delivered

\* C8: the Car's handlers for region_changed and weather_change, called
\* during delivery with the environment's lock held, never ask for that lock
\* again: the publish_event they call for compliance_mode_changed,
\* feature_blocked or speed_adjusted never waits for the lock while the
\* thread holds it.
C8_HandlersDoNotRetakeLock ==
    ~(BlockedOnOwnLock /\ Publisher \in {"_handle_region_change", "_handle_weather_change"})

\* C17: after SimulationEnvironment.set_location has returned with a position
\* inside Japan (35.6762, 139.6503) the environment's current region is "JP"
\* and, with regulatory mode enabled, so is the Car's current_region; with a
\* position in New York (40.7128, -74.0060) the region is "US".
C17_LocationRegion ==
    /\ (Idle /\ env.current_location = [latitude |-> 356762, longitude |-> 1396503])
           => (/\ env.current_region = "JP"
               /\ car.regulatory_mode_enabled => car.status.current_region = "JP")
    /\ (Idle /\ env.current_location = [latitude |-> 407128, longitude |-> 0 - 740060])
           => env.current_region = "US"

\* C33: while the car is in state EMERGENCY_STOP its speed is 0: no obstacle
\* response, weather change, speed-limit change or drive_to raises it.
C33_EmergencyStopHoldsSpeed ==
    car.status.state = "emergency_stop" => car.status.speed = 0

\* the step is a call of update_driver_attention
CallsUpdateDriverAttention ==
    /\ Idle
    /\ stack' # <<>>
    /\ stack'[1].fn = "update_driver_attention"

\* the driver-alert events the call publishes
DriverAlertsOfCall ==
    SelectSeq(stack'[1].todo,
              LAMBDA ev : ev.event_type \in {TierAlert(1), TierAlert(2), TierAlert(3)})

\* C27: a call of update_driver_attention publishes one driver-alert event,
\* that of the new tier, when the alert tier rises, and no driver-alert event
\* when the tier stays the same.
C27_AlertOnlyWhenTierRises ==
    [][CallsUpdateDriverAttention =>
          LET before == Tier(car.status.driver_state)
              after == Tier(car'.status.driver_state)
          IN  /\ after > before =>
                     /\ Len(DriverAlertsOfCall) = 1
                     /\ DriverAlertsOfCall[1].event_type = TierAlert(after)
              /\ after = before => DriverAlertsOfCall = <<>>]_vars

\* ------------------------------------------------------------------------
\* Alert sink properties
\* ------------------------------------------------------------------------
\* the sink's alerts stand in publish order
SinkInPublishOrder ==
    \A i, j \in 1..Len(al.alerts) : i < j => al.alerts[i].n < al.alerts[j].n

\* _handle_alert, called with an alert record, appends it
DeliveredIsAppended ==
    \A t \in Threads :
        (/\ al.thread[t].pc = "publish"
         /\ al'.thread[t].pc = "idle"
         /\ al.thread[t].event.is_alert_data)
            => al'.alerts = Append(al.alerts, al.thread[t].event)

\* the sink shrinks in get_alerts(clear=True) and clear_alerts() only
ShrinksOnRequestOnly ==
    Len(al'.alerts) < Len(al.alerts)
        => al.thread["calling"].pc \in {"get_alerts_clear", "clear_alerts"}

\* get_alerts() returns the sink and leaves it as it is
GetLeavesSink ==
    (/\ al.thread["calling"].pc = "get_alerts"
     /\ ~al.thread["calling"].clear
     /\ al'.thread["calling"].pc = "idle")
        => (alRet' = al.alerts /\ al'.alerts = al.alerts)

\* C22: every alert event published with an alert record is appended to the
\* alert sink, the sink holds its alerts in publish order, it shrinks only
\* in get_alerts(clear=True) and clear_alerts(), and get_alerts() without
\* clear returns the sink and leaves it unchanged.
C22_SinkInPublishOrder ==
    /\ [][DeliveredIsAppended /\ ShrinksOnRequestOnly /\ GetLeavesSink]_vars
    /\ []SinkInPublishOrder

\* get_alerts(clear=True) empties the sink in this step
ClearsInGetAlerts ==
    /\ al.thread["calling"].pc = "get_alerts_clear"
    /\ al'.thread["calling"].pc = "idle"

\* C39: get_alerts(clear=True) loses no alert: every alert it removes from
\* the sink is in the list it returns, also when the simulation thread
\* appends an alert while get_alerts is executing.
C39_ClearLosesNoAlert ==
    [][ClearsInGetAlerts =>
          \A i \in 1..Len(al.alerts) :
              \E k \in 1..Len(alRet) : alRet[k] = al.alerts[i]]_vars

\* ------------------------------------------------------------------------
\* Simulator properties
\* ------------------------------------------------------------------------
\* the simulation thread is between two of its accesses to the vehicle state
\* within one module's update
BgInVehicleState ==
    bg.pc \in {"sl_new_speed", "sl_write_speed", "sl_write_stationary", "sl_publish",
               "rm_lon"}

\* the calling thread is between the two writes of set_vehicle_speed
FgInVehicleState == fg.pc = "set_vehicle_speed_stationary"

\* C6: accesses to the vehicle state are mutually exclusive: the calling
\* thread is never between the two writes of set_vehicle_speed while the
\* simulation thread is between the reads and writes of the same vehicle
\* state in a module's update.
C6_VehicleStateExclusive == ~(FgInVehicleState /\ BgInVehicleState)

\* the simulation thread publishes vehicle_state_update in this step
PublishesTick == bg.pc = "publish_state" /\ bg'.pc # "publish_state"

\* stop() has set the stop signal and has not returned yet
InStop == fg.pc \in {"stop_join", "stop_publish"}

\* C21: after stop() on a running orchestrator the loop starts no new tick
\* and ends, and once stop() has returned, simulation_stopped being
\* published, no vehicle_state_update is published until the next start():
\* the loop's test fails when the orchestrator is not running, and a step
\* that publishes vehicle_state_update happens while the orchestrator is
\* running or stop() has not returned.
C21_NoTickAfterStop ==
    [][/\ (bg.pc = "loop" /\ bg'.pc # "loop" /\ ~sim.running) => bg'.pc = "ended"
       /\ PublishesTick => (sim.running \/ InStop)]_vars

\* the simulation thread publishes speed_adjusted in this step
PublishesSpeedAdjusted == bg.pc = "sl_publish" /\ bg'.pc # "sl_publish"

\* start() has started the thread and has not yet published simulation_started
StartNotAnnounced == fg.pc = "start_publish"

\* the step is a start() on a running orchestrator
StartsWhileRunning == fg.pc = "idle" /\ sim.running /\ fg'.pc = "start_publish"

\* C40: simulation_started precedes every vehicle_state_update and every
\* other event of a tick of that run, so no tick publishes while start() has
\* still to publish simulation_started; and start() on a running orchestrator
\* starts no second loop and publishes no second simulation_started.
C40_StartedBeforeTickEvents ==
    [][/\ (PublishesTick \/ PublishesSpeedAdjusted) => ~StartNotAnnounced
       /\ ~StartsWhileRunning]_vars

\* the modules of a tick, in the order of their updates
TickOrder ==
    <<"driver_monitoring", "speed_limiting", "ota_updates",
      "obstacle_detection", "regulatory_mode">>

\* the tick in progress has passed its vehicle_state_update
InTick == bg.pc \notin {"none", "loop", "publish_state", "ended"}

\* C23: every tick publishes vehicle_state_update first and then calls
\* update exactly once on driver monitoring, speed limiting, OTA, obstacle
\* detection and regulatory mode, in that order: the updates called so far
\* in a tick are the first modules of that order, all five when the tick is
\* over, and no update is called before the tick's vehicle_state_update.
C23_TickOrder ==
    /\ InTick =>
           /\ "vehicle_state_update" \in sim.event_history
           /\ Len(bg.updated) <= Len(TickOrder)
           /\ bg.updated = SubSeq(TickOrder, 1, Len(bg.updated))
    /\ bg.pc = "sleep" => bg.updated = TickOrder
    /\ bg.pc = "publish_state" => bg.updated \in {<<>>, TickOrder}

\* a tick is over in which speed limiting changed the speed
C23_Witness ==
    /\ bg.pc = "sleep"
    /\ bg.updated = TickOrder
    /\ "speed_adjusted" \in sim.event_history
    /\ dmLast.op = "update"
    /\ last.op = "update"

\* C24: in every reachable state the vehicle speed is non-negative.
C24_SpeedNonNegative == sim.vehicle_state.speed >= 0

\* ------------------------------------------------------------------------
\* Obstacle detection properties
\* ------------------------------------------------------------------------
\* the calls that inject a candidate obstacle
Injections ==
    {"add_obstacle", "simulate_pedestrian", "simulate_animal", "simulate_static_object"}

\* C11: a step that admits a pedestrian at less than 20 m with a velocity
\* above 0 publishes exactly one alert, a critical emergency_stop, and
\* leaves the vehicle's speed at 0.
C11_PedestrianEmergencyStop ==
    [][(/\ od'.obstacles # od.obstacles
        /\ odLast'.op \in {"add_obstacle", "simulate_pedestrian"}
        /\ odLast'.cand.object_type = "pedestrian"
        /\ odLast'.cand.distance < Mtr(20)
        /\ odLast'.cand.velocity > 0)
       => (/\ Len(odLast'.alerts) = 1
           /\ odLast'.alerts[1].alert_type = "emergency_stop"
           /\ odLast'.alerts[1].severity = "critical"
           /\ sim'.vehicle_state.speed = 0)]_vars

\* C20: an injection whose computed confidence is below the threshold
\* leaves the tracked obstacles as they were and publishes no alert.
C20_BelowThresholdNotTracked ==
    [][(/\ odLast'.op \in Injections
        /\ odLast'.confidence >= 0
        /\ odLast'.confidence < od.confidence_threshold
        /\ <<od, odLast>> # <<od', odLast'>>)
       => (od' = od /\ odLast'.alerts = <<>>)]_vars

C20_Witness ==
    /\ odLast.op = "simulate_animal"
    /\ odLast.cand.is_night
    /\ odLast.cand.distance = Mtr(15)
    /\ odLast.confidence >= 0
    /\ odLast.confidence < od.confidence_threshold
    /\ od.confidence_threshold = Conf(70)
    /\ od.obstacles = <<>>
    /\ odLast.alerts = <<>>

\* the confidence before noise as stated: 0.9 times the distance factor
\* (0.6 above 100 m, 0.8 above 50 m, else 1.0) times the type factor
StatedBaseConfidence(distance, object_type) ==
    LET distance_factor == IF distance > Mtr(100) THEN 6
                           ELSE IF distance > Mtr(50) THEN 8
                           ELSE 10
        type_factor == CASE object_type = "vehicle" -> 100
                         [] object_type = "pedestrian" -> 85
                         [] object_type = "animal" -> 75
                         [] OTHER -> 90
    IN  (((Conf(90) * distance_factor) \div 10) * type_factor) \div 100

\* the calls whose confidence is that of _calculate_fusion_confidence
PlainInjections == {"add_obstacle", "simulate_pedestrian", "simulate_static_object"}

\* C34: the fusion confidence is the stated confidence before noise plus a
\* noise in [-0.1, 0.1], clamped to [0, 1]: it lies between the stated
\* confidence less 0.1 and the stated confidence plus 0.1, and in [0, 1].
C34_FusionConfidence ==
    odLast.op \in PlainInjections
        => LET stated == StatedBaseConfidence(odLast.cand.distance,
                                              odLast.cand.object_type)
           IN  /\ odLast.confidence >= Max(0, stated - Conf(10))
               /\ odLast.confidence <= Min(Conf(100), stated + Conf(10))

\* the step admits an animal
AdmitsAnimal ==
    /\ odLast'.op = "simulate_animal"
    /\ od'.obstacles # od.obstacles
    /\ odLast'.confidence >= od.confidence_threshold

\* C35: an admitted animal at less than 30 m publishes exactly one slow_down
\* alert, of severity warning by day and critical at night; an admitted
\* animal at 30 m or more publishes no alert.
C35_AnimalSlowDown ==
    [][AdmitsAnimal =>
          IF odLast'.cand.distance < Mtr(30)
          THEN /\ Len(odLast'.alerts) = 1
               /\ odLast'.alerts[1].alert_type = "slow_down"
               /\ odLast'.alerts[1].severity =
                      (IF odLast'.cand.is_night THEN "critical" ELSE "warning")
          ELSE odLast'.alerts = <<>>]_vars

\* C36: every tracked obstacle has a distance in [0, detection_range].
C36_TrackedWithinRange ==
    \A k \in DOMAIN od.obstacles :
        /\ od.obstacles[k].distance >= 0
        /\ od.obstacles[k].distance <= od.detection_range

\* the step is an update of the enabled module
TicksEnabled == odTicks' = odTicks + 1 /\ od.enabled

\* the distance of an obstacle after a tick as stated: less by the closing
\* velocity (vehicle speed in m/s minus obstacle velocity) times 0.1 s
StatedDistance(obstacle, speed) ==
    obstacle.distance - ((speed * 10) \div 36 - obstacle.velocity) \div 10

\* C37: on a tick the distance of every tracked obstacle shrinks by the
\* closing velocity times the tick duration, and the obstacle is dropped
\* when that distance is outside (0, detection_range].
C37_DistanceShrinksByClosing ==
    [][TicksEnabled =>
          LET stated == [k \in DOMAIN od.obstacles |->
                            [od.obstacles[k] EXCEPT !.distance =
                                StatedDistance(od.obstacles[k],
                                               sim.vehicle_state.speed)]]
          IN  od'.obstacles =
                  SelectSeq(stated, LAMBDA obs : /\ obs.distance > 0
                                                 /\ obs.distance <= od.detection_range)]_vars

\* ------------------------------------------------------------------------
\* Properties of the event bus
\* ------------------------------------------------------------------------
\* the callback the innermost loop calls next
NextCallback == bus.subscribers[BusTop.event.event_type][BusTop.i + 1]

\* the loop of the innermost publish call has a callback left
Delivering ==
    /\ ~BusIdle
    /\ BusTop.i < Len(bus.subscribers[BusTop.event.event_type])

\* the event of every publish call in progress is in the history
InHistory(event) ==
    \E k \in DOMAIN bus.event_history : bus.event_history[k] = event

\* C12: publish first appends the event to the history and then invokes
\* every handler registered for exactly that event type, once per
\* registration, in subscription order, and no handler of another type: the
\* event of a publish in progress is in the history, and when the publish
\* has returned the callbacks invoked for its event are the registrations of
\* its type, in their order.
C12_DeliveryInSubscriptionOrder ==
    /\ \A k \in DOMAIN busStack : InHistory(busStack[k].event)
    /\ (BusIdle /\ busObs.op = "publish")
           => busObs.invoked = busObs.registered

RECURSIVE IsSubsequence(_, _)
IsSubsequence(sub, seq) ==
    IF sub = <<>> THEN TRUE
    ELSE IF seq = <<>> THEN FALSE
    ELSE IF Head(sub) = Head(seq) THEN IsSubsequence(Tail(sub), Tail(seq))
    ELSE IsSubsequence(sub, Tail(seq))

\* C14: events appear in the unfiltered history in the order in which
\* publish was called, those published by handlers during a delivery
\* included (the history is the run of the latest publish calls, in call
\* order), and the history filtered by a type holds exactly the events of
\* that type, in the order they have in the unfiltered history.
C14_HistoryInPublishOrder ==
    /\ \A k \in DOMAIN bus.event_history :
           bus.event_history[k].n
               = bus.published - Len(bus.event_history) + k - 1
    /\ GetEventHistory(bus, "") = bus.event_history
    /\ \A t \in EventTypes :
           LET filtered == GetEventHistory(bus, t)
           IN  /\ \A k \in DOMAIN filtered : filtered[k].event_type = t
               /\ Len(filtered)
                      = Cardinality({k \in DOMAIN bus.event_history :
                                         bus.event_history[k].event_type = t})
               /\ IsSubsequence(filtered, bus.event_history)

\* a handler has published during a delivery that went on after it, and the
\* history holds events of both types
C14_Witness ==
    /\ BusIdle
    /\ busObs.op = "publish"
    /\ busObs.invoked = <<"h_pub", "h_ok">>
    /\ Len(bus.event_history) >= 3
    /\ Len(GetEventHistory(bus, "a")) >= 1
    /\ Len(GetEventHistory(bus, "b")) >= 2

\* C15: after any sequence of publishes the event history holds at most the
\* configured maximum number of events (the maximum the environment is
\* configured with, for a bus that has none of its own).
C15_HistoryBounded == Len(bus.event_history) <= MaxLog

\* the number of times a callback stands in a list of callbacks
Occurrences(callback, seq) ==
    Cardinality({k \in DOMAIN seq : seq[k] = callback})

\* C38: when handlers unsubscribe handlers of the event's type during its
\* delivery, every handler that was registered when publish was called and
\* is still registered when it returns has been invoked exactly once for the
\* event (handlers registered once are counted).
C38_StillRegisteredInvokedOnce ==
    (BusIdle /\ busObs.op = "publish")
        => \A callback \in Callbacks :
               (/\ Occurrences(callback, busObs.registered) = 1
                /\ Occurrences(callback,
                               bus.subscribers[busObs.event.event_type]) = 1)
                   => Occurrences(callback, busObs.invoked) = 1

\* ------------------------------------------------------------------------
\* Regulatory mode properties
\* ------------------------------------------------------------------------
\* the bounding boxes of the lookup, in the stated priority order (degrees)
Boxes ==
    <<[code |-> "US", lat |-> <<25, 49>>, lon |-> <<0 - 125, 0 - 66>>],
      [code |-> "EU", lat |-> <<35, 71>>, lon |-> <<0 - 10, 40>>],
      [code |-> "JP", lat |-> <<30, 46>>, lon |-> <<129, 146>>],
      [code |-> "CN", lat |-> <<18, 54>>, lon |-> <<73, 135>>]>>

InBox(box, lat, lon) ==
    /\ Deg(box.lat[1]) <= lat /\ lat <= Deg(box.lat[2])
    /\ Deg(box.lon[1]) <= lon /\ lon <= Deg(box.lon[2])

\* the code of the first box, in priority order, that holds the point; US
\* when none does
FirstMatch(lat, lon) ==
    LET hits == {k \in DOMAIN Boxes : InBox(Boxes[k], lat, lon)}
    IN  IF hits = {} THEN "US"
        ELSE Boxes[CHOOSE k \in hits : \A j \in hits : k <= j].code

\* C16: region lookup checks the boxes in the order US, EU, JP, CN and
\* returns the first match, US when no box matches: New York gives US,
\* Tokyo JP, Beijing CN, a point of both the JP and the CN box JP; and the
\* region the enabled module holds after simulate_gps_position is the first
\* match of the position given.
C16_RegionLookupPriority ==
    /\ \A p \in TickPositions :
           DetermineRegionFromCoordinates(p.lat, p.lon) = FirstMatch(p.lat, p.lon)
    /\ DetermineRegionFromCoordinates(407128, 0 - 740060) = "US"
    /\ DetermineRegionFromCoordinates(356762, 1396503) = "JP"
    /\ DetermineRegionFromCoordinates(399042, 1164074) = "CN"
    /\ \A p \in GpsPositions :
           (InBox(Boxes[3], p.lat, p.lon) /\ InBox(Boxes[4], p.lat, p.lon))
               => DetermineRegionFromCoordinates(p.lat, p.lon) = "JP"
    /\ (rmLast.op = "simulate_gps_position" /\ rm.enabled)
           => rm.current_region
                  = FirstMatch(rmLast.position.lat, rmLast.position.lon)

\* simulate_gps_position was given a point of both the JP and the CN box
C16_Witness ==
    /\ rmLast.op = "simulate_gps_position"
    /\ rm.enabled
    /\ rmLast.position = [lat |-> Deg(35), lon |-> Deg(130)]
    /\ InBox(Boxes[3], rmLast.position.lat, rmLast.position.lon)
    /\ InBox(Boxes[4], rmLast.position.lat, rmLast.position.lon)
    /\ rmLast.before = "CN"
    /\ rm.current_region = "JP"

\* the alerts of a type among those of the latest call
AlertsOfType(alert_type) ==
    {k \in DOMAIN rmLast.alerts : rmLast.alerts[k].alert_type = alert_type}

\* the latest call made the module resolve a position: simulate_gps_position
\* or a tick with a GPS fix, the module being enabled
Resolved ==
    /\ rm.enabled
    /\ rmLast.op \in {"simulate_gps_position", "update"}
    /\ rmLast.position # NoPosition

\* the latest call was a border crossing from the current region to another
Crossed ==
    /\ rmLast.op = "simulate_border_crossing"
    /\ Len(rmLast.codes) = 2
    /\ rmLast.codes[1] = rmLast.before
    /\ rmLast.codes[2] \in RegionCodes
    /\ rmLast.codes[2] # rmLast.codes[1]

\* the alerts of a change from region A to region B: one region-change
\* alert, one features-disabled alert naming the features allowed in A but
\* not in B if there are any, one features-enabled alert naming those allowed
\* in B but not in A if there are any, and no other
ChangeAlerts(A, B) ==
    LET disabled == AllowedFeatures(A) \ AllowedFeatures(B)
        enabled == AllowedFeatures(B) \ AllowedFeatures(A)
    IN  /\ Cardinality(AlertsOfType("region_change")) = 1
        /\ \A k \in AlertsOfType("region_change") :
               rmLast.alerts[k].regions = <<A, B>>
        /\ Cardinality(AlertsOfType("features_disabled"))
               = IF disabled # {} THEN 1 ELSE 0
        /\ \A k \in AlertsOfType("features_disabled") :
               rmLast.alerts[k].features = disabled
        /\ Cardinality(AlertsOfType("features_enabled"))
               = IF enabled # {} THEN 1 ELSE 0
        /\ \A k \in AlertsOfType("features_enabled") :
               rmLast.alerts[k].features = enabled
        /\ Len(rmLast.alerts)
               = 1 + (IF disabled # {} THEN 1 ELSE 0) + (IF enabled # {} THEN 1 ELSE 0)

\* C18: when the region the module resolves for a position differs from its
\* current region A, the module adopts the resolved region B and emits the
\* alerts of the change from A to B (so does a border crossing from A to B);
\* a tick or GPS stimulus that resolves to the current region emits nothing
\* and leaves the region.
C18_RegionChangeAlerts ==
    /\ Resolved =>
           LET B == FirstMatch(rmLast.position.lat, rmLast.position.lon)
           IN  /\ rm.current_region = B
               /\ IF B # rmLast.before
                  THEN ChangeAlerts(rmLast.before, B)
                  ELSE rmLast.alerts = <<>>
    /\ Crossed =>
           /\ rm.current_region = rmLast.codes[2]
           /\ ChangeAlerts(rmLast.codes[1], rmLast.codes[2])

\* a tick took the module from the US to Japan: ota_updates is disabled,
\* traffic_light_detection enabled
C18_Witness ==
    /\ Resolved
    /\ rmLast.op = "update"
    /\ rmLast.before = "US"
    /\ rm.current_region = "JP"
    /\ Len(rmLast.alerts) = 3
    /\ rmLast.alerts[2].alert_type = "features_disabled"
    /\ rmLast.alerts[2].features = {"ota_updates"}
    /\ rmLast.alerts[3].alert_type = "features_enabled"
    /\ rmLast.alerts[3].features = {"traffic_light_detection"}

\* the latest call was attempt_feature_activation
Attempted == rmLast.op = "attempt_feature_activation"

\* the feature of the latest call is in the current region's allow-list
InAllowList == rmLast.feature_name \in AllowedFeatures(rm.current_region)

\* the call returned success and emitted one info alert
SucceededWithInfo ==
    /\ rmLast.result = "True"
    /\ Len(rmLast.alerts) = 1
    /\ rmLast.alerts[1].severity = "info"

\* the call returned failure and emitted one warning alert
FailedWithWarning ==
    /\ rmLast.result = "False"
    /\ Len(rmLast.alerts) = 1
    /\ rmLast.alerts[1].severity = "warning"

\* C19 as stated: attempt_feature_activation returns success and emits one
\* info alert exactly when the feature is in the current region's
\* allow-list, and otherwise returns failure and emits one warning alert; it
\* never changes the current region.
C19_ActivationAsStated ==
    Attempted =>
        /\ IF InAllowList THEN SucceededWithInfo ELSE FailedWithWarning
        /\ rm.current_region = rmLast.before

\* C19: while the module is enabled attempt_feature_activation returns
\* success and emits one info alert exactly when the feature is in the
\* current region's allow-list, and otherwise returns failure and emits one
\* warning alert; while the module is disabled it returns success and emits
\* nothing, whatever the feature; it returns a truth value in every case and
\* never changes the current region.
C19_Activation ==
    Attempted =>
        /\ IF ~rm.enabled
           THEN rmLast.result = "True" /\ rmLast.alerts = <<>>
           ELSE IF InAllowList THEN SucceededWithInfo ELSE FailedWithWarning
        /\ rmLast.result \in {"True", "False"}
        /\ rm.current_region = rmLast.before

\* the enabled module has refused a feature outside the allow-list
C19_Witness ==
    /\ Attempted
    /\ rm.enabled
    /\ rm.current_region = "JP"
    /\ rmLast.feature_name = "ota_updates"
    /\ ~InAllowList
    /\ FailedWithWarning
    /\ rmLast.alerts[1].alert_type = "feature_blocked"

\* ------------------------------------------------------------------------
\* Specifications
\* ------------------------------------------------------------------------
Init ==
    /\ ota = OtaInit
    /\ now = 0
    /\ last = [op |-> "init", args |-> NoArgs, from |-> "idle",
               ret |-> "None", alerts |-> <<>>, trace |-> <<>>]
    /\ hist = [pre_version |-> "1.0.0", version |-> "", entered |-> NoTime]
    /\ dm = DmInit
    /\ dmLast = [op |-> "init", arg |-> NumArg(0), level_before |-> 0,
                 alerts |-> <<>>, events |-> <<>>]
    /\ env = EnvInit
    /\ car = CarInit
    /\ stack = <<>>
    /\ delivered = {}
    /\ wall = WallEpoch
    /\ al = AlInit
    /\ rc = RcInit
    /\ alRet = <<>>
    /\ sim = SimInit
    /\ bg = BgInit
    /\ fg = FgInit
    /\ od = OdInit
    /\ odLast = [op |-> "init", cand |-> NoCandidate,
                 confidence |-> 0 - 1, alerts |-> <<>>, events |-> <<>>]
    /\ odTicks = 0
    /\ bus = BusInit
    /\ busStack = <<>>
    /\ rm = RmInit
    /\ rmLast = [op |-> "init", position |-> NoPosition, feature_name |-> "",
                 codes |-> <<>>, before |-> "US", alerts |-> <<>>,
                 result |-> "none"]
    /\ busObs = [op |-> "init", event |-> BusEvent("", 0), registered |-> <<>>,
                 invoked |-> <<>>, raised |-> FALSE]

NextOTA ==
    \/ OtaStartUpdate
    \/ OtaNetworkFailure
    \/ OtaPowerFailure
    \/ OtaTick
    \/ OtaEnable
    \/ OtaDisable
    \/ OtaAdvance

SpecOTA == Init /\ [][NextOTA]_vars

NextOtaLive ==
    \/ OtaStartUpdate
    \/ OtaNetworkFailure
    \/ OtaPowerFailure
    \/ OtaLiveTick

NextOtaRace ==
    \/ RcStartUpdate
    \/ RcTick
    \/ RcInstallation
    \/ RcCompleteUpdate
    \/ RcCompleteIdle
    \/ RcSignal
    \/ RcRollback
    \/ RcRollbackAlert
    \/ RcRollbackIdle
    \/ OtaAdvance

SpecOtaRace == Init /\ [][NextOtaRace]_vars

\* ticks keep arriving: the simulation loop calls update() again and again
SpecOtaLive == Init /\ [][NextOtaLive]_vars /\ WF_vars(OtaLiveTick)

NextDM ==
    \/ DmSetAlertThreshold
    \/ DmEnable
    \/ DmDisable
    \/ DmSimulateGazeDirection
    \/ DmSimulateGazeAway
    \/ DmSimulateEyesClosed
    \/ DmTick

SpecDM == Init /\ [][NextDM]_vars

NextEnv ==
    \/ EnvStart
    \/ EnvStop
    \/ EnvSetLocation
    \/ EnvSetWeatherConditions
    \/ CarEnableRegulatoryMode
    \/ CarDisableRegulatoryMode
    \/ CarEnableAdaptiveSpeed
    \/ CarDisableAdaptiveSpeed
    \/ CarSetSpeedLimit
    \/ CarDriveTo
    \/ CarStopSimulation
    \/ CarStartSimulation
    \/ PublishCall
    \/ PublishAcquire
    \/ PublishDeliver
    \/ Return

SpecEnv == Init /\ [][NextEnv]_vars

NextStop ==
    \/ CarEnableAdaptiveSpeed
    \/ CarEnableObstacleDetection
    \/ CarDisableObstacleDetection
    \/ CarDetectObstacle
    \/ CarEmergencyStop
    \/ CarSetSpeedLimit
    \/ CarDriveTo
    \/ EnvSetWeatherConditions
    \/ PublishCall
    \/ PublishAcquire
    \/ PublishDeliver
    \/ Return

SpecStop == Init /\ [][NextStop]_vars

NextAttention ==
    \/ CarEnableDriverMonitoring
    \/ CarDisableDriverMonitoring
    \/ CarUpdateDriverAttention
    \/ WallTick
    \/ PublishCall
    \/ PublishAcquire
    \/ PublishDeliver
    \/ Return

SpecAttention == Init /\ [][NextAttention]_vars

NextAlerts ==
    \/ AlertPublish
    \/ AlertDeliver
    \/ GetAlertsCall
    \/ GetAlertsCopy
    \/ GetAlertsClear
    \/ ClearAlertsCall
    \/ ClearAlerts

SpecAlerts == Init /\ [][NextAlerts]_vars

NextSim ==
    \/ FgStart
    \/ FgStartPublish
    \/ FgStop
    \/ FgStopJoin
    \/ FgStopPublish
    \/ FgSetVehiclePosition
    \/ FgSetVehicleSpeed
    \/ FgSetVehicleSpeedStationary
    \/ BgLoop
    \/ BgPublishVehicleState
    \/ BgDriverMonitoring
    \/ BgSpeedLimiting
    \/ BgSlNewSpeed
    \/ BgSlWriteSpeed
    \/ BgSlWriteStationary
    \/ BgSlPublish
    \/ BgOtaUpdates
    \/ BgObstacleDetection
    \/ BgRegulatoryMode
    \/ BgRmLon
    \/ BgSleep

SpecSim == Init /\ [][NextSim]_vars

NextOD ==
    \/ OdAddObstacle
    \/ OdSimulatePedestrian
    \/ OdSimulateAnimal
    \/ OdSimulateStaticObject
    \/ OdSetConfidenceThreshold
    \/ OdEnable
    \/ OdDisable
    \/ OdClearObstacles
    \/ OdTick
    \/ FgSetVehicleSpeed
    \/ FgSetVehicleSpeedStationary

SpecOD == Init /\ [][NextOD]_vars

NextBus ==
    \/ BusSubscribe
    \/ BusUnsubscribe
    \/ BusClearHistory
    \/ BusPublish
    \/ BusDeliver
    \/ BusReturn

SpecBus == Init /\ [][NextBus]_vars

NextRM ==
    \/ RmSimulateGpsPosition
    \/ RmSimulateBorderCrossing
    \/ RmCheckFeatureAllowed
    \/ RmAttemptFeatureActivation
    \/ RmTick
    \/ RmEnable
    \/ RmDisable

SpecRM == Init /\ [][NextRM]_vars

====
